---------------------------- MODULE Spec2Model ----------------------------
(***************************************************************************)
(* Model of the HHBBC bytecode emitter (hphp/hhbbc/emit.cpp): emit_unit    *)
(* drives emit_pseudomain / emit_class / emit_func; each function goes     *)
(* through emit_init_func, emit_bytecode (order_blocks, emit_inst, the     *)
(* branch fix-ups, the stack and FPI depth tracking) and emit_finish_func  *)
(* (emit_locals_and_params, emit_ehent_tree, maxStackCells).               *)
(*                                                                         *)
(* assert and always_assert are modelled as fatal: a failed assertion      *)
(* moves the emitter to pc = "abort" with err naming the assertion.        *)
(***************************************************************************)
EXTENDS Integers, Sequences, FiniteSets, TLC

VARIABLES
  unit,     \* the php::Unit being emitted (order_blocks and emit_init_func write to it)
  ue,       \* the UnitEmitter: bytecode, literal strings, func emitters, pre-class emitters
  euState,  \* EmitUnitState: defClsMap
  ret,      \* EmitBcInfo of the function being emitted
  loc,      \* locals of emit_bytecode: currentStackDepth, fpiStack, lastOff, blockIt, instIt
  ehs,      \* locals of emit_ehent_tree: exnMap (as a region arena), activeList, walk position
  pc,       \* position of the driver
  task,     \* index of the declaration emit_unit is at
  err,      \* "" or the assertion that failed
  hist,     \* history of the emission (observations only, never read by the emitter)
  pass,     \* how many times emit_unit has completed on this unit
  first,    \* the first emit_unit: the UnitEmitter returned, the unit left, the layouts
  others,   \* the calls of emit_unit that are not running: which call runs, the saved ones
  probe     \* a helper called on its own: its arguments and its result

vars == <<unit, ue, euState, ret, loc, ehs, pc, task, err, hist, pass, first, others,
          probe>>

----------------------------------------------------------------------------
(* Program constants *)

kInvalidOffset == 2147483647
NoBlockId == -1
INT_MAX == 2147483647
kNumIterCells == 2
kNumActRecCells == 3
NoDepth == -1

----------------------------------------------------------------------------
(* Sequence helpers *)

Range(s) == {s[i] : i \in 1..Len(s)}

Last(s) == s[Len(s)]

Front(s) == SubSeq(s, 1, Len(s) - 1)

Reverse(s) == [i \in 1..Len(s) |-> s[Len(s) + 1 - i]]

RECURSIVE Flatten(_)
Flatten(ss) == IF ss = <<>> THEN <<>> ELSE Head(ss) \o Flatten(Tail(ss))

Max(a, b) == IF a > b THEN a ELSE b

----------------------------------------------------------------------------
(* The opcode table (OPCODES of hhbc.h): immediates, pops, pushes, flags.  *)

OpNames == <<"Nop", "EntryNop", "Int", "PopC", "CGetL", "Jmp", "JmpNS", "JmpZ",
             "Switch", "SSwitch", "RetC", "Throw", "FPushFuncD", "FCall",
             "DefCls", "DefClsNop", "Unwind">>

OpByte(op) == CHOOSE i \in 1..Len(OpNames) : OpNames[i] = op

Imms(op) ==
  CASE op = "Int"        -> <<"I64A">>
    [] op = "CGetL"      -> <<"LA">>
    [] op = "Jmp"        -> <<"BA">>
    [] op = "JmpNS"      -> <<"BA">>
    [] op = "JmpZ"       -> <<"BA">>
    [] op = "Switch"     -> <<"OA", "I64A", "BLA">>
    [] op = "SSwitch"    -> <<"SLA">>
    [] op = "FPushFuncD" -> <<"IVA", "SA">>
    [] op = "FCall"      -> <<"IVA">>
    [] op = "DefCls"     -> <<"IVA">>
    [] op = "DefClsNop"  -> <<"IVA">>
    [] OTHER             -> <<>>

\* POP_##inputs: ONE(CV) for the consumers, FMANY (arg1 cells) for FCall
NumPop(inst) ==
  CASE inst.op \in {"PopC", "JmpZ", "Switch", "SSwitch", "RetC", "Throw"} -> 1
    [] inst.op = "FCall" -> inst.args[1]
    [] OTHER -> 0

\* PUSH_##outputs
NumPush(inst) == IF inst.op \in {"Int", "CGetL", "FCall"} THEN 1 ELSE 0

isTF(op) == op \in {"Jmp", "JmpNS", "Switch", "SSwitch", "RetC", "Throw", "Unwind"}

isRet(op) == op = "RetC"

isFPush(op) == op = "FPushFuncD"

isFCallStar(op) == op = "FCall"

\* An instruction: op, args (args[n] is the data of the n-th immediate: arg<n>,
\* loc<n>, subop<n>, str<n>; literal strings are numbered), targets (BA: the
\* target; BLA, SLA: the table, the i-th SLA case string being the literal i)
Inst(op, args, targets) == [op |-> op, args |-> args, targets |-> targets]

----------------------------------------------------------------------------
(* The UnitEmitter's byte stream *)

bcPos(u) == Len(u.bc)

emitByte(u, b) == [u EXCEPT !.bc = @ \o <<b>>]

emitOp(u, op) == emitByte(u, OpByte(op))

\* the w little-endian bytes of v in two's complement (% and \div round
\* towards minus infinity, so a negative v yields its two's-complement bytes)
RECURSIVE LEBytes(_, _)
LEBytes(v, w) == IF w = 0 THEN <<>> ELSE <<v % 256>> \o LEBytes(v \div 256, w - 1)

Int32Bytes(v) == LEBytes(v, 4)

Int64Bytes(v) == LEBytes(v, 8)

emitInt32(u, v) == [u EXCEPT !.bc = @ \o Int32Bytes(v)]

emitInt64(u, v) == [u EXCEPT !.bc = @ \o Int64Bytes(v)]

\* emitInt32(val, atOffset): overwrite the four bytes at offset off
emitInt32At(u, v, off) ==
  [u EXCEPT !.bc = [i \in 1..Len(@) |->
      IF i > off /\ i <= off + 4 THEN Int32Bytes(v)[i - off] ELSE @[i]]]

\* one byte when the value fits in 7 bits, otherwise 4 bytes with the high
\* bit of the first byte set
emitIVA(u, n) ==
  IF n < 128 THEN emitByte(u, n)
  ELSE [u EXCEPT !.bc = @ \o <<128 + (n % 128), (n \div 128) % 256,
                                (n \div 32768) % 256, (n \div 8388608) % 256>>]

\* the signed 32-bit integer stored at offset off
readInt32(bc, off) ==
  LET hi == IF bc[off + 4] >= 128 THEN bc[off + 4] - 256 ELSE bc[off + 4]
  IN bc[off + 1] + 256 * bc[off + 2] + 65536 * bc[off + 3] + 16777216 * hi

\* mergeLitstr: the id of s in the unit's literal-string table, interning it
\* if new
litstrId(u, s) ==
  IF s \in Range(u.litstrs)
  THEN (CHOOSE i \in 1..Len(u.litstrs) : u.litstrs[i] = s) - 1
  ELSE Len(u.litstrs)

mergeLitstr(u, s) ==
  IF s \in Range(u.litstrs) THEN u ELSE [u EXCEPT !.litstrs = Append(@, s)]

----------------------------------------------------------------------------
(* The IR (representation.h).  A function: blocks (block id b is           *)
(* blocks[b + 1]), mainEntry, params (dvEntryPoint), locals (id, killed),  *)
(* exnNodes (node n >= 1 is exnNodes[n]; 0 is the null node), numIters,    *)
(* numClsRefSlots.                                                         *)

Blk(f, b) == f.blocks[b + 1]

Node(f, n) == f.exnNodes[n]

is_single_nop(b) == Len(b.hhbcs) = 1 /\ b.hhbcs[1].op = "Nop"

\* forEachSuccessor: the taken edges of the last instruction, the factored
\* exits, the fallthrough
Successors(b) ==
  (IF b.hhbcs = <<>> THEN <<>> ELSE Last(b.hhbcs).targets)
  \o b.factoredExits
  \o (IF b.fallthrough # NoBlockId THEN <<b.fallthrough>> ELSE <<>>)

RECURSIVE postorderWalk(_, _, _), walkSuccessors(_, _, _)
postorderWalk(f, st, b) ==
  IF b \in st.visited THEN st
  ELSE LET st1 == [st EXCEPT !.visited = @ \cup {b}]
           st2 == walkSuccessors(f, st1, Successors(Blk(f, b)))
       IN [st2 EXCEPT !.out = Append(@, b)]

walkSuccessors(f, st, ss) ==
  IF ss = <<>> THEN st
  ELSE walkSuccessors(f, postorderWalk(f, st, Head(ss)), Tail(ss))

postorderFromMain(f) ==
  postorderWalk(f, [out |-> <<>>, visited |-> {}], f.mainEntry)

rpoSortFromMain(f) == Reverse(postorderFromMain(f).out)

\* the DV entry points are walked from the last parameter to the first, with
\* the visited set of the walk from the main entry
RECURSIVE walkDVs(_, _, _)
walkDVs(f, st, i) ==
  IF i = 0 THEN st
  ELSE walkDVs(f,
               IF f.params[i].dvEntryPoint = NoBlockId THEN st
               ELSE postorderWalk(f, st, f.params[i].dvEntryPoint),
               i - 1)

rpoSortAddDVs(f) == Reverse(walkDVs(f, postorderFromMain(f), Len(f.params)).out)

\* a variant that erases nothing
EraseFrom_nothing(s, x) == s

\* withDVs.erase(std::find(begin, end, x), end)
EraseFrom(s, x) ==
  IF x \in Range(s)
  THEN SubSeq(s, 1, (CHOOSE i \in 1..Len(s) : s[i] = x /\ \A j \in 1..(i - 1) : s[j] # x) - 1)
  ELSE s

SectionRank(sec) == IF sec = "Main" THEN 0 ELSE 1

\* the comparator of the stable_sort
SectionLess(f, a, b) == SectionRank(Blk(f, a).section) < SectionRank(Blk(f, b).section)

\* a variant that puts x before the first element that is not less than x
RECURSIVE StableInsert_before_equal(_, _, _)
StableInsert_before_equal(f, s, x) ==
  IF s = <<>> THEN <<x>>
  ELSE IF ~SectionLess(f, Head(s), x) THEN <<x>> \o s
  ELSE <<Head(s)>> \o StableInsert_before_equal(f, Tail(s), x)

\* std::stable_sort: x goes before the first element it is less than
RECURSIVE StableInsert(_, _, _)
StableInsert(f, s, x) ==
  IF s = <<>> THEN <<x>>
  ELSE IF SectionLess(f, x, Head(s)) THEN <<x>> \o s
  ELSE <<Head(s)>> \o StableInsert(f, Tail(s), x)

RECURSIVE StableSort(_, _)
StableSort(f, s) ==
  IF s = <<>> THEN <<>> ELSE StableInsert(f, StableSort(f, Front(s)), Last(s))

\* a variant that puts the DV-only blocks in front
order_input_dvs_first(f) ==
  EraseFrom(rpoSortAddDVs(f), Head(rpoSortFromMain(f))) \o rpoSortFromMain(f)

\* the list that order_blocks sorts: RPO from main, then the DV-only blocks
order_input(f) ==
  LET sorted == rpoSortFromMain(f)
  IN sorted \o EraseFrom(rpoSortAddDVs(f), Head(sorted))

order_layout(f) == StableSort(f, order_input(f))

EntryNopBody == <<Inst("EntryNop", <<>>, <<>>)>>

\* a variant that leaves the first block as it is
order_rewrite_none(f) == f

\* the function as order_blocks leaves it: a first block that is a single Nop
\* becomes a single EntryNop
order_rewrite(f) ==
  LET front == Head(order_layout(f))
  IN IF is_single_nop(Blk(f, front))
     THEN [f EXCEPT !.blocks[front + 1].hhbcs = EntryNopBody]
     ELSE f

order_blocks(f) == [sorted |-> order_layout(f), func |-> order_rewrite(f)]

----------------------------------------------------------------------------
(* emit_bytecode.  The operators below work on the emitter's state as one  *)
(* record M = [ue, eu, ret, loc, err, hist] and return the state after the *)
(* call; once M.err is set nothing more is executed.                       *)

Fail(M, e) == IF M.err = "" THEN [M EXCEPT !.err = e] ELSE M

NewBlockInfo ==
  [offset |-> kInvalidOffset, past |-> kInvalidOffset, regionsToPop |-> 0,
   forwardJumps |-> <<>>, expectedStackDepth |-> NoDepth,
   expectedFPIDepth |-> NoDepth]

map_local(M, f, id) ==
  IF f.locals[id + 1].killed THEN Fail(M, "assert(!loc.killed)")
  ELSE IF f.locals[id + 1].id > id THEN Fail(M, "assert(loc.id <= id)")
  ELSE M

\* a variant that closes the outermost open region instead of the innermost
end_fpi_outermost(M, off) ==
  IF M.err # "" THEN M
  ELSE IF M.loc.fpiStack = <<>> THEN Fail(M, "fpiStack.back() on an empty stack")
  ELSE [M EXCEPT !.ret.fpiRegions =
                    Append(@, [Head(M.loc.fpiStack) EXCEPT !.fpiEndOff = off]),
                 !.loc.fpiStack = Tail(@)]

end_fpi(M, off) ==
  IF M.err # "" THEN M
  ELSE IF M.loc.fpiStack = <<>> THEN Fail(M, "fpiStack.back() on an empty stack")
  ELSE LET fpi == [Last(M.loc.fpiStack) EXCEPT !.fpiEndOff = off]
       IN [M EXCEPT !.ret.fpiRegions = Append(@, fpi),
                    !.loc.fpiStack = Front(@)]

\* a variant that keeps the first expectation and asserts nothing
set_expected_depth_first(M, id) ==
  IF M.err # "" THEN M
  ELSE [M EXCEPT !.hist.expects =
                    Append(@, [target |-> id, depth |-> M.loc.currentStackDepth,
                               fpi |-> Len(M.loc.fpiStack)]),
                 !.ret.blockInfo[id + 1].expectedStackDepth =
                    IF @ = NoDepth THEN M.loc.currentStackDepth ELSE @,
                 !.ret.blockInfo[id + 1].expectedFPIDepth =
                    IF @ = NoDepth THEN Len(M.loc.fpiStack) ELSE @]

set_expected_depth(M, id) ==
  IF M.err # "" THEN M
  ELSE
    LET info == M.ret.blockInfo[id + 1]
        cur == M.loc.currentStackDepth
        fpi == Len(M.loc.fpiStack)
        M1 == [M EXCEPT !.hist.expects =
                 Append(@, [target |-> id, depth |-> cur, fpi |-> fpi])]
    IN IF info.expectedStackDepth # NoDepth /\ info.expectedStackDepth # cur
       THEN Fail(M1, "assert(*info.expectedStackDepth == currentStackDepth)")
       ELSE IF info.expectedFPIDepth # NoDepth /\ info.expectedFPIDepth # fpi
       THEN Fail(M1, "assert(*info.expectedFPIDepth == fpiStack.size())")
       ELSE [M1 EXCEPT !.ret.blockInfo[id + 1].expectedStackDepth = cur,
                       !.ret.blockInfo[id + 1].expectedFPIDepth = fpi]

\* a variant that measures a resolved branch from its immediate
branch_immediate_from_imm(M, id, startOffset) ==
  IF M.err # "" THEN M
  ELSE IF M.ret.blockInfo[id + 1].offset # kInvalidOffset
  THEN [M EXCEPT !.hist.branches =
                    Append(@, [instrOff |-> startOffset, jmpImmedOff |-> bcPos(M.ue),
                               target |-> id]),
                 !.ue = emitInt32(@, M.ret.blockInfo[id + 1].offset - bcPos(M.ue))]
  ELSE [M EXCEPT !.hist.branches =
                    Append(@, [instrOff |-> startOffset, jmpImmedOff |-> bcPos(M.ue),
                               target |-> id]),
                 !.ret.blockInfo[id + 1].forwardJumps =
                    Append(@, [instrOff |-> startOffset, jmpImmedOff |-> bcPos(M.ue)]),
                 !.ue = emitInt32(@, 0)]

\* the immediate of emit_branch, once the target's expected depth is set:
\* the resolved relative offset, or a zero placeholder and a forward jump
branch_immediate(M, id, startOffset) ==
  IF M.err # "" THEN M
  ELSE IF M.ret.blockInfo[id + 1].offset # kInvalidOffset
  THEN [M EXCEPT !.hist.branches =
                    Append(@, [instrOff |-> startOffset, jmpImmedOff |-> bcPos(M.ue),
                               target |-> id]),
                 !.ue = emitInt32(@, M.ret.blockInfo[id + 1].offset - startOffset)]
  ELSE [M EXCEPT !.hist.branches =
                    Append(@, [instrOff |-> startOffset, jmpImmedOff |-> bcPos(M.ue),
                               target |-> id]),
                 !.ret.blockInfo[id + 1].forwardJumps =
                    Append(@, [instrOff |-> startOffset, jmpImmedOff |-> bcPos(M.ue)]),
                 !.ue = emitInt32(@, 0)]

emit_branch(M, id, startOffset) ==
  branch_immediate(set_expected_depth(M, id), id, startOffset)

RECURSIVE emit_branches(_, _, _)
emit_branches(M, targets, startOffset) ==
  IF targets = <<>> THEN M
  ELSE emit_branches(emit_branch(M, Head(targets), startOffset), Tail(targets),
                     startOffset)

emit_switch(M, targets, startOffset) ==
  emit_branches([M EXCEPT !.ue = emitInt32(@, Len(targets))], targets, startOffset)

\* the cases i < size - 1: the interned case string, then the branch
RECURSIVE emit_sswitch_cases(_, _, _, _)
emit_sswitch_cases(M, targets, i, startOffset) ==
  IF i >= Len(targets) THEN M
  ELSE emit_sswitch_cases(
         emit_branch([M EXCEPT !.ue = emitInt32(mergeLitstr(@, i), litstrId(@, i))],
                     targets[i], startOffset),
         targets, i + 1, startOffset)

\* the default case: -1 in place of a string id, then the branch
emit_sswitch_default(M, targets, startOffset) ==
  emit_branch([M EXCEPT !.ue = emitInt32(@, -1)], Last(targets), startOffset)

emit_sswitch(M, targets, startOffset) ==
  emit_sswitch_default(
    emit_sswitch_cases([M EXCEPT !.ue = emitInt32(@, Len(targets))],
                       targets, 1, startOffset),
    targets, startOffset)

\* IMM_<kind>(n)
emit_imm(M, f, inst, n, startOffset) ==
  LET kind == Imms(inst.op)[n] IN
  IF M.err # "" THEN M
  ELSE CASE kind = "BLA"  -> emit_switch(M, inst.targets, startOffset)
         [] kind = "SLA"  -> emit_sswitch(M, inst.targets, startOffset)
         [] kind = "BA"   -> emit_branch(M, inst.targets[1], startOffset)
         [] kind = "IVA"  -> [M EXCEPT !.ue = emitIVA(@, inst.args[n])]
         [] kind = "I64A" -> [M EXCEPT !.ue = emitInt64(@, inst.args[n])]
         [] kind = "OA"   -> [M EXCEPT !.ue = emitByte(@, inst.args[n])]
         [] kind = "SA"   -> [M EXCEPT !.ue = emitInt32(mergeLitstr(@, inst.args[n]),
                                                        litstrId(@, inst.args[n]))]
         [] kind = "LA"   ->
              IF map_local(M, f, inst.args[n]).err # ""
              THEN map_local(M, f, inst.args[n])
              ELSE [M EXCEPT !.ue = emitIVA(@, f.locals[inst.args[n] + 1].id)]

RECURSIVE emit_imms(_, _, _, _, _)
emit_imms(M, f, inst, n, startOffset) ==
  IF n > Len(Imms(inst.op)) THEN M
  ELSE emit_imms(emit_imm(M, f, inst, n, startOffset), f, inst, n + 1, startOffset)

\* a variant that asserts nothing
pop_unchecked(M, n) ==
  IF M.err # "" THEN M ELSE [M EXCEPT !.loc.currentStackDepth = @ - n]

pop(M, n) ==
  IF M.err # "" THEN M
  ELSE IF M.loc.currentStackDepth - n < 0
  THEN Fail([M EXCEPT !.loc.currentStackDepth = @ - n],
            "assert(currentStackDepth >= 0)")
  ELSE [M EXCEPT !.loc.currentStackDepth = @ - n]

\* a variant that does not raise maxStackDepth
push_no_max(M, n) ==
  IF M.err # "" THEN M ELSE [M EXCEPT !.loc.currentStackDepth = @ + n]

push(M, n) ==
  IF M.err # "" THEN M
  ELSE LET d == M.loc.currentStackDepth + n
       IN [M EXCEPT !.loc.currentStackDepth = d,
                    !.ret.maxStackDepth = IF d > @ THEN d ELSE @]

fpush(M, startOffset) ==
  IF M.err # "" THEN M
  ELSE LET stack == Append(M.loc.fpiStack,
                           [fpushOff |-> startOffset, fpiEndOff |-> kInvalidOffset,
                            fpDelta |-> M.loc.currentStackDepth])
       IN [M EXCEPT !.loc.fpiStack = stack,
                    !.ret.maxFpiDepth = Max(@, Len(stack))]

\* a variant that ends the region after the call instruction
fcall_after_call(M, startOffset) == end_fpi(M, bcPos(M.ue))

fcall(M, startOffset) == end_fpi(M, startOffset)

\* a variant that asserts nothing
ret_assert_none(M) == M

ret_assert(M) ==
  IF M.err = "" /\ M.loc.currentStackDepth # 1
  THEN Fail(M, "assert(currentStackDepth == 1)")
  ELSE M

\* a variant that asserts nothing and overwrites the entry
defcls_overwrite(M, inst, startOffset) ==
  IF M.err # "" THEN M
  ELSE IF inst.args[1] + 1 > Len(M.eu.defClsMap) THEN Fail(M, "defClsMap[id] out of range")
  ELSE [M EXCEPT !.eu.defClsMap[inst.args[1] + 1] = startOffset]

\* defcls and defclsnop have the same body: both read inst.DefCls.arg1
defcls(M, inst, startOffset) ==
  LET id == inst.args[1] IN
  IF M.err # "" THEN M
  ELSE IF id + 1 > Len(M.eu.defClsMap) THEN Fail(M, "defClsMap[id] out of range")
  ELSE IF M.eu.defClsMap[id + 1] # kInvalidOffset
  THEN Fail(M, "always_assert(euState.defClsMap[id] == kInvalidOffset)")
  ELSE [M EXCEPT !.eu.defClsMap[id + 1] = startOffset]

defclsnop(M, inst, startOffset) == defcls(M, inst, startOffset)

emit_srcloc(M, startOffset) ==
  IF M.err # "" THEN M
  ELSE [M EXCEPT !.ue.sourceLocTab = Append(@, startOffset)]

\* The body of emit_<opcode>, statement by statement.
\* if (Op::opcode == Op::DefCls) defcls(inst);
\* if (Op::opcode == Op::DefClsNop) defclsnop(inst);
\* if (isRet(Op::opcode)) ret_assert();
O_hooks(M, inst, startOffset) ==
  IF inst.op = "DefCls" THEN defcls(M, inst, startOffset)
  ELSE IF inst.op = "DefClsNop" THEN defclsnop(M, inst, startOffset)
  ELSE IF isRet(inst.op) THEN ret_assert(M)
  ELSE M

\* ue.emitOp(Op::opcode);
O_emitOp(M, inst, startOffset) ==
  IF M.err # "" THEN M
  ELSE [M EXCEPT !.ue = emitOp(@, inst.op),
                 !.hist.starts = @ \cup {startOffset},
                 !.hist.defcls =
                    IF inst.op \in {"DefCls", "DefClsNop"}
                    THEN Append(@, [id |-> inst.args[1], off |-> startOffset])
                    ELSE @]

\* if (isFPush(Op::opcode)) fpush();  if (isFCallStar(Op::opcode)) fcall();
O_fpi(M, inst, startOffset) ==
  IF isFPush(inst.op) THEN fpush(M, startOffset)
  ELSE IF isFCallStar(inst.op) THEN fcall(M, startOffset)
  ELSE M

\* if (flags & TF) currentStackDepth = 0;
\* if (Op::opcode == Op::FCall) ret.containsCalls = true;
O_flags(M, inst) ==
  IF M.err # "" THEN M
  ELSE [M EXCEPT !.loc.currentStackDepth = IF isTF(inst.op) THEN 0 ELSE @,
                 !.ret.containsCalls = IF inst.op = "FCall" THEN TRUE ELSE @]

\* a variant that applies the pops and the pushes after the immediates
emit_opcode_imms_first(M, f, inst, startOffset) ==
  emit_srcloc(
    O_flags(
      O_fpi(
        push(pop(emit_imms(O_emitOp(O_hooks(M, inst, startOffset), inst, startOffset),
                           f, inst, 1, startOffset),
                 NumPop(inst)),
             NumPush(inst)),
        inst, startOffset),
      inst),
    startOffset)

\* hooks, opcode byte, pops, pushes, immediates, fpush / fcall, the TF
\* reset, containsCalls, the source location
emit_opcode(M, f, inst, startOffset) ==
  emit_srcloc(
    O_flags(
      O_fpi(
        emit_imms(
          push(pop(O_emitOp(O_hooks(M, inst, startOffset), inst, startOffset),
                   NumPop(inst)),
               NumPush(inst)),
          f, inst, 1, startOffset),
        inst, startOffset),
      inst),
    startOffset)

emit_inst(M, f, inst) ==
  LET startOffset == bcPos(M.ue)
      M1 == [M EXCEPT !.loc.lastOff = startOffset]
  IN IF inst.op # "Nop" THEN emit_opcode(M1, f, inst, startOffset) ELSE M1

----------------------------------------------------------------------------
(* Exception nodes.  A node is [parent, depth, kind, entry]; 0 is nullptr. *)
(* handleEquivalent and commonParent dereference their arguments: the      *)
(* value "null" stands for a dereference of nullptr.                       *)

Entry(f, n) == Node(f, n).entry

RECURSIVE handleEquivalentLoop(_, _, _)
handleEquivalentLoop(f, eh1, eh2) ==
  IF eh1 = 0 \/ eh2 = 0 THEN "null"
  ELSE IF Entry(f, eh1) # Entry(f, eh2) THEN "false"
  ELSE LET p1 == Node(f, eh1).parent
           p2 == Node(f, eh2).parent
       IN IF p1 = 0 /\ p2 = 0 THEN "true" ELSE handleEquivalentLoop(f, p1, p2)

handleEquivalent(f, eh1, eh2) ==
  IF eh1 = 0 /\ eh2 = 0 THEN "true"
  ELSE IF eh1 = 0 \/ eh2 = 0 THEN "false"
  ELSE IF Node(f, eh1).depth # Node(f, eh2).depth THEN "false"
  ELSE handleEquivalentLoop(f, eh1, eh2)

\* while (eh1->depth > eh2->depth) eh1 = eh1->parent;  (-1: nullptr dereferenced)
RECURSIVE Ascend(_, _, _)
Ascend(f, eh1, d) ==
  IF eh1 = 0 THEN -1
  ELSE IF Node(f, eh1).depth > d THEN Ascend(f, Node(f, eh1).parent, d)
  ELSE eh1

RECURSIVE commonParentLoop(_, _, _)
commonParentLoop(f, eh1, eh2) ==
  LET he == handleEquivalent(f, eh1, eh2)
  IN IF he = "true" THEN eh1
     ELSE IF he = "null" \/ eh1 = 0 \/ eh2 = 0 THEN -1
     ELSE commonParentLoop(f, Node(f, eh1).parent, Node(f, eh2).parent)

\* a variant without the two loops that bring the nodes to the same depth
commonParent_unlevelled(f, eh1, eh2) ==
  IF eh1 = 0 \/ eh2 = 0 THEN 0 ELSE commonParentLoop(f, eh1, eh2)

\* the node (0 for nullptr), or -1 when nullptr is dereferenced on the way
commonParent(f, eh1, eh2) ==
  IF eh1 = 0 \/ eh2 = 0 THEN 0
  ELSE LET a == Ascend(f, eh1, Node(f, eh2).depth)
           b == IF a = -1 THEN -1 ELSE Ascend(f, eh2, Node(f, a).depth)
       IN IF a = -1 \/ b = -1 THEN -1 ELSE commonParentLoop(f, a, b)

RECURSIVE exn_path(_, _)
exn_path(f, n) == IF n = 0 THEN <<>> ELSE Append(exn_path(f, Node(f, n).parent), n)

RECURSIVE shared_prefix(_, _)
shared_prefix(r1, r2) ==
  IF r1 # <<>> /\ r2 # <<>> /\ Head(r1) = Head(r2)
  THEN 1 + shared_prefix(Tail(r1), Tail(r2))
  ELSE 0

----------------------------------------------------------------------------
(* emit_ehent_tree.  E = [regions, activeList, walk, err]: regions is the  *)
(* arena of EHRegions in creation order, a region being [node, parent,     *)
(* start, past] with parent an index of regions (0: nullptr);              *)
(* exnMap[p].back() is the last region of node p.                          *)

LastRegionOf(E, p) ==
  CHOOSE i \in 1..Len(E.regions) :
    /\ E.regions[i].node = p
    /\ \A j \in (i + 1)..Len(E.regions) : E.regions[j].node # p

pop_active(E, past) ==
  IF E.err # "" THEN E
  ELSE IF E.activeList = <<>>
  THEN [E EXCEPT !.err = "activeList.back() on an empty list"]
  ELSE LET p == Last(E.activeList)
       IN [E EXCEPT !.activeList = Front(@),
                    !.regions[LastRegionOf(E, p)].past = past]

push_active(E, p, start) ==
  IF E.err # "" THEN E
  ELSE LET parent == IF E.activeList = <<>> THEN 0
                     ELSE LastRegionOf(E, Last(E.activeList))
       IN [E EXCEPT !.regions = Append(@, [node |-> p, parent |-> parent,
                                           start |-> start, past |-> kInvalidOffset]),
                    !.activeList = Append(@, p)]

RECURSIVE pop_n(_, _, _)
pop_n(E, n, past) == IF n <= 0 THEN E ELSE pop_n(pop_active(E, past), n - 1, past)

RECURSIVE push_from(_, _, _, _)
push_from(E, current, i, start) ==
  IF i > Len(current) THEN E
  ELSE push_from(push_active(E, current[i], start), current, i + 1, start)

\* one iteration of the walk over info.blockOrder
eh_walk_block(E, f, info, b) ==
  LET offset == info.blockInfo[b + 1].offset
      current == exn_path(f, Blk(f, b).exnNode)
      prefix == shared_prefix(current, E.activeList)
      E1 == pop_n(E, Len(E.activeList) - prefix, offset)
      E2 == push_from(E1, current, prefix + 1, offset)
      E3 == pop_n(E2, info.blockInfo[b + 1].regionsToPop, info.blockInfo[b + 1].past)
  IN IF Blk(f, b).exnNode = 0
     THEN pop_n(E, Len(E.activeList), offset)
     ELSE IF E3.err = "" /\ E3.activeList # <<>>
             /\ exn_path(f, Last(E3.activeList)) # E3.activeList
     THEN [E3 EXCEPT !.err = "assert(current == activeList)"]
     ELSE E3

\* a variant that closes the remaining nodes at the last block's offset
eh_walk_end_at_offset(E, info) ==
  pop_n(E, Len(E.activeList), info.blockInfo[Last(info.blockOrder) + 1].offset)

eh_walk_end(E, info) ==
  pop_n(E, Len(E.activeList), info.blockInfo[Last(info.blockOrder) + 1].past)

\* a is a proper ancestor of b in the region-parent chain
RECURSIVE RegionAncestor(_, _, _)
RegionAncestor(R, a, b) ==
  LET p == R[b].parent
  IN IF p = 0 THEN FALSE ELSE IF p = a THEN TRUE ELSE RegionAncestor(R, a, p)

\* a variant that puts the later region first
RegionLess_later_first(R, a, b) ==
  IF a = b THEN FALSE
  ELSE IF R[a].start = R[b].start
  THEN IF R[a].past = R[b].past
       THEN RegionAncestor(R, a, b)
       ELSE R[a].past > R[b].past
  ELSE R[a].start > R[b].start

\* the comparator given to std::sort
RegionLess(R, a, b) ==
  IF a = b THEN FALSE
  ELSE IF R[a].start = R[b].start
  THEN IF R[a].past = R[b].past
       THEN RegionAncestor(R, a, b)
       ELSE R[a].past > R[b].past
  ELSE R[a].start < R[b].start

\* the comparator's debug assertion fails on (a, b)
RegionAssertFails(R, a, b) ==
  /\ a # b
  /\ R[a].start = R[b].start
  /\ R[a].past = R[b].past
  /\ ~RegionAncestor(R, a, b)
  /\ ~RegionAncestor(R, b, a)

SameExtent(R, a, b) == R[a].start = R[b].start /\ R[a].past = R[b].past

\* the comparator orders the regions of a's extent totally
ChainGroup(R, a) ==
  \A x, y \in 1..Len(R) :
    (SameExtent(R, a, x) /\ SameExtent(R, a, y) /\ x # y)
      => (RegionAncestor(R, x, y) \/ RegionAncestor(R, y, x))

RECURSIVE Perms(_)
Perms(S) ==
  IF S = {} THEN {<<>>}
  ELSE UNION {{<<x>> \o p : p \in Perms(S \ {x})} : x \in S}

\* What std::sort may leave in `regions`: the comparator's order between
\* regions of different extents and inside every extent whose regions the
\* comparator orders totally; where it does not (regions of equal extent that
\* are unrelated) the comparator is no strict weak order and the order inside
\* that extent is unspecified.
SortOutcomes(R) ==
  {p \in Perms(1..Len(R)) :
     \A i, j \in 1..Len(R) :
       (i < j /\ RegionLess(R, p[j], p[i]))
         => (SameExtent(R, p[i], p[j]) /\ ~ChainGroup(R, p[i]))}

\* a variant that skips no region
is_empty_region_never(region) == FALSE

\* "A region on a single empty block": emit_eh_region skips it
is_empty_region(region) == region.start = region.past

\* a variant that looks no parent up
emit_eh_region_root(X, f, R, r, blockInfo) ==
  IF X.err # "" \/ R[r].start = R[r].past THEN X
  ELSE [X EXCEPT !.ehtab = Append(@, [base |-> R[r].start, past |-> R[r].past,
                                      parentIndex |-> -1,
                                      type |-> Node(f, R[r].node).kind,
                                      handler |-> blockInfo[Entry(f, R[r].node) + 1].offset,
                                      end |-> kInvalidOffset]),
                 !.parentIndexMap[r] = Len(X.ehtab),
                 !.emitted = Append(@, r)]

\* emit_eh_region on X = [ehtab, parentIndexMap, emitted, err]; parentIndexMap
\* maps a region to its index in ehtab, -1 when it has none; emitted lists the
\* regions that got an entry, in table order (an observation)
emit_eh_region(X, f, R, r, blockInfo) ==
  LET region == R[r]
      parentIndex == IF region.parent # 0 THEN X.parentIndexMap[region.parent] ELSE -1
      eh == [base |-> region.start, past |-> region.past,
             parentIndex |-> parentIndex,
             type |-> Node(f, region.node).kind,
             handler |-> blockInfo[Entry(f, region.node) + 1].offset,
             end |-> kInvalidOffset]
  IN IF X.err # "" THEN X
     ELSE IF is_empty_region(region) THEN X
     ELSE IF region.past < region.start
     THEN [X EXCEPT !.err = "assert(eh.m_past >= eh.m_base)"]
     ELSE IF region.start = kInvalidOffset \/ region.past = kInvalidOffset
     THEN [X EXCEPT !.err = "assert(eh.m_base != kInvalidOffset && eh.m_past != kInvalidOffset)"]
     ELSE IF region.parent # 0 /\ X.parentIndexMap[region.parent] = -1
     THEN [X EXCEPT !.err = "assert(parentIt != end(parentIndexMap))"]
     ELSE [X EXCEPT !.ehtab = Append(@, eh),
                    !.parentIndexMap[r] = Len(X.ehtab),
                    !.emitted = Append(@, r)]

RECURSIVE emit_eh_regions(_, _, _, _, _)
emit_eh_regions(X, f, R, order, blockInfo) ==
  IF order = <<>> THEN X
  ELSE emit_eh_regions(emit_eh_region(X, f, R, Head(order), blockInfo), f, R,
                       Tail(order), blockInfo)

----------------------------------------------------------------------------
(* emit_finish_func *)

\* clsRefCountToCells: class-ref slots are pointers, two to a cell
clsRefCountToCells(n) == (n + 1) \div 2

\* emit_locals_and_params on P = [id, funcletOff, err]
RECURSIVE locals_and_params(_, _, _, _)
locals_and_params(P, f, info, i) ==
  IF i > Len(f.locals) \/ P.err # "" THEN P
  ELSE LET l == f.locals[i]
           dv == f.params[P.id + 1].dvEntryPoint
       IN IF l.id < Len(f.params)
          THEN IF l.killed THEN [P EXCEPT !.err = "assert(!loc.killed)"]
               ELSE locals_and_params(
                      [P EXCEPT !.id = @ + 1,
                                !.funcletOff = Append(@,
                                   IF dv # NoBlockId THEN info.blockInfo[dv + 1].offset
                                   ELSE kInvalidOffset)],
                      f, info, i + 1)
          ELSE IF ~l.killed
          THEN locals_and_params([P EXCEPT !.id = @ + 1], f, info, i + 1)
          ELSE locals_and_params(P, f, info, i + 1)

emit_locals_and_params(f, info) ==
  locals_and_params([id |-> 0, funcletOff |-> <<>>, err |-> ""], f, info, 1)

maxStackCells(info, numLocals, f) ==
  info.maxStackDepth + numLocals + f.numIters * kNumIterCells
    + clsRefCountToCells(f.numClsRefSlots) + info.maxFpiDepth * kNumActRecCells

\* a variant that renumbers a live local from the id it has
RECURSIVE assign_ids_from_old(_, _, _)
assign_ids_from_old(locals, i, id) ==
  IF i > Len(locals) THEN locals
  ELSE IF locals[i].killed
  THEN assign_ids_from_old([locals EXCEPT ![i].id = INT_MAX], i + 1, id)
  ELSE assign_ids_from_old([locals EXCEPT ![i].id = Max(@ - 1, 0)], i + 1, id + 1)

\* emit_init_func: killed locals get INT_MAX, the others consecutive ids
RECURSIVE assign_ids(_, _, _)
assign_ids(locals, i, id) ==
  IF i > Len(locals) THEN locals
  ELSE IF locals[i].killed
  THEN assign_ids([locals EXCEPT ![i].id = INT_MAX], i + 1, id)
  ELSE assign_ids([locals EXCEPT ![i].id = id], i + 1, id + 1)

emit_init_func(f) == [f EXCEPT !.locals = assign_ids(@, 1, 0)]

NewFuncEmitter(base) ==
  [base |-> base, past |-> kInvalidOffset, fpitab |-> <<>>, ehtab |-> <<>>,
   ehTabSorted |-> FALSE, funcletOff |-> <<>>, numLocals |-> 0,
   maxStackCells |-> 0, containsCalls |-> FALSE]

----------------------------------------------------------------------------
(* emit_unit.  The unit is [pseudomain, classes, funcs], a class being     *)
(* [methods]; emit_unit emits the pseudomain, every class (its pre-class   *)
(* emitter, then its methods), every function, and then writes the DefCls  *)
(* offsets.  Tasks lists these steps in order.                             *)

ClassTasks(u, c) ==
  <<[kind |-> "class", c |-> c, i |-> 0]>>
  \o [m \in 1..Len(u.classes[c].methods) |-> [kind |-> "method", c |-> c, i |-> m]]

Tasks(u) ==
  <<[kind |-> "pseudomain", c |-> 0, i |-> 0]>>
  \o Flatten([c \in 1..Len(u.classes) |-> ClassTasks(u, c)])
  \o [k \in 1..Len(u.funcs) |-> [kind |-> "func", c |-> 0, i |-> k]]
  \o <<[kind |-> "offsets", c |-> 0, i |-> 0]>>

GetFunc(u, t) ==
  CASE t.kind = "pseudomain" -> u.pseudomain
    [] t.kind = "method"     -> u.classes[t.c].methods[t.i]
    [] t.kind = "func"       -> u.funcs[t.i]

SetFunc(u, t, f) ==
  CASE t.kind = "pseudomain" -> [u EXCEPT !.pseudomain = f]
    [] t.kind = "method"     -> [u EXCEPT !.classes[t.c].methods[t.i] = f]
    [] t.kind = "func"       -> [u EXCEPT !.funcs[t.i] = f]

CurTask == Tasks(unit)[task]

CurFunc == GetFunc(unit, CurTask)

\* the block emit_bytecode's loop is at
CurBlockId == ret.blockOrder[loc.blockIt]

CurBlock == Blk(CurFunc, CurBlockId)

NewUnitEmitter ==
  [bc |-> <<>>, litstrs |-> <<>>, sourceLocTab |-> <<>>, fes |-> <<>>, pces |-> <<>>]

NewEuState(u) == [defClsMap |-> [c \in 1..Len(u.classes) |-> kInvalidOffset]]

NoRet ==
  [blockOrder |-> <<>>, maxStackDepth |-> 0, maxFpiDepth |-> 0,
   containsCalls |-> FALSE, fpiRegions |-> <<>>, blockInfo |-> <<>>]

NoLoc ==
  [currentStackDepth |-> 0, fpiStack |-> <<>>, lastOff |-> 0, blockIt |-> 1,
   instIt |-> 1]

NoEhs == [regions |-> <<>>, activeList |-> <<>>, walk |-> 1, err |-> ""]

\* the observations of one function's emission
NoHist(h) ==
  [expects |-> <<>>, branches |-> <<>>, starts |-> {}, entries |-> <<>>,
   jumps |-> <<>>, ehRegions |-> <<>>, ehEmitted |-> <<>>, seen |-> {},
   defcls |-> h.defcls, layouts |-> h.layouts]

InitHist == NoHist([defcls |-> <<>>, layouts |-> <<>>])

Machine == [ue |-> ue, eu |-> euState, ret |-> ret, loc |-> loc, err |-> err,
            hist |-> hist]

Commit(MM, next) == \E M \in {MM} :
  /\ ue' = M.ue
  /\ euState' = M.eu
  /\ ret' = M.ret
  /\ loc' = M.loc
  /\ err' = M.err
  /\ hist' = [M.hist EXCEPT !.seen = @ \cup {[depth |-> M.loc.currentStackDepth,
                                               fpi |-> Len(M.loc.fpiStack)]}]
  /\ pc' = IF M.err # "" THEN "abort" ELSE next

\* no other call of emit_unit, no helper called on its own
NoOthers == [running |-> 0, mixed |-> FALSE, saved |-> <<>>]

NoProbe == [a |-> 0, b |-> 0, called |-> FALSE, result |-> 0]

\* the state in which emit_unit starts on unit u
InitEmit(u) ==
  /\ unit = u
  /\ ue = NewUnitEmitter
  /\ euState = NewEuState(u)
  /\ ret = NoRet
  /\ loc = NoLoc
  /\ ehs = NoEhs
  /\ pc = "unit"
  /\ task = 1
  /\ err = ""
  /\ hist = InitHist
  /\ pass = 0
  /\ first = [ue |-> NewUnitEmitter, unit |-> u, layouts |-> <<>>]

InitWith(u) ==
  /\ InitEmit(u)
  /\ others = NoOthers
  /\ probe = NoProbe

\* emit_class up to its methods: the pre-class emitter, initialised at the
\* current position (initOffset keeps the offset given to init, an observation)
EmitClass ==
  /\ pc = "unit"
  /\ CurTask.kind = "class"
  /\ ue' = [ue EXCEPT !.pces = Append(@, [offset |-> bcPos(ue), initOffset |-> bcPos(ue)])]
  /\ task' = task + 1
  /\ UNCHANGED <<unit, euState, ret, loc, ehs, pc, err, hist, pass, first, others, probe>>

\* emit_pseudomain / emit_func / a method of emit_class, up to the loop of
\* emit_bytecode: the function emitter, emit_init_func (not for the
\* pseudomain), the locals of emit_bytecode, order_blocks
StartFunc ==
  /\ pc = "unit"
  /\ CurTask.kind \in {"pseudomain", "method", "func"}
  /\ LET f0 == CurFunc
         f1 == IF CurTask.kind = "pseudomain" THEN f0 ELSE emit_init_func(f0)
         ob == order_blocks(f1)
     IN /\ unit' = SetFunc(unit, CurTask, ob.func)
        /\ ue' = [ue EXCEPT !.fes = Append(@, NewFuncEmitter(bcPos(ue)))]
        /\ ret' = [NoRet EXCEPT !.blockOrder = ob.sorted,
                                !.blockInfo = [b \in 1..Len(f1.blocks) |-> NewBlockInfo]]
        /\ loc' = NoLoc
        /\ hist' = [NoHist(hist) EXCEPT !.layouts = Append(@, ob.sorted)]
        /\ pc' = "block"
  /\ UNCHANGED <<euState, ehs, task, err, pass, first, others, probe>>

\* a variant that resolves the first fixup of the list only
patch_jumps_first_only(u, fixups, offset) ==
  IF fixups = <<>> THEN u
  ELSE emitInt32At(u, offset - Head(fixups).instrOff, Head(fixups).jmpImmedOff)

RECURSIVE patch_jumps(_, _, _)
patch_jumps(u, fixups, offset) ==
  IF fixups = <<>> THEN u
  ELSE patch_jumps(emitInt32At(u, offset - Head(fixups).instrOff,
                               Head(fixups).jmpImmedOff),
                   Tail(fixups), offset)

RECURSIVE close_fpis(_, _, _)
close_fpis(M, depth, off) ==
  IF M.err # "" \/ Len(M.loc.fpiStack) <= depth THEN M
  ELSE close_fpis(end_fpi(M, off), depth, off)

\* the head of the loop over blockOrder, up to the block's first instruction
block_entry(M, b) ==
  LET info == M.ret.blockInfo[b + 1]
      offset == bcPos(M.ue)
      esd == IF info.expectedStackDepth = NoDepth THEN 0 ELSE info.expectedStackDepth
      efd == IF info.expectedFPIDepth = NoDepth THEN 0 ELSE info.expectedFPIDepth
      M1 == [M EXCEPT !.ret.blockInfo[b + 1].offset = offset,
                      !.ue = patch_jumps(@, info.forwardJumps, offset),
                      !.ret.blockInfo[b + 1].expectedStackDepth = esd,
                      !.loc.currentStackDepth = esd,
                      !.ret.blockInfo[b + 1].expectedFPIDepth = efd,
                      !.loc.instIt = 1,
                      !.hist.entries = Append(@, [block |-> b, depth |-> esd,
                                                  fpi |-> efd, offset |-> offset,
                                                  nexp |-> Len(M.hist.expects)])]
  IN IF efd > Len(M.loc.fpiStack)
     THEN Fail(M1, "assert(*info.expectedFPIDepth <= fpiStack.size())")
     ELSE close_fpis(M1, efd, M.loc.lastOff)

BlockEntry ==
  /\ pc = "block"
  /\ loc.blockIt <= Len(ret.blockOrder)
  /\ Commit(block_entry(Machine, CurBlockId), "inst")
  /\ UNCHANGED <<unit, ehs, task, pass, first, others, probe>>

EmitInst ==
  /\ pc = "inst"
  /\ loc.instIt <= Len(CurBlock.hhbcs)
  /\ LET M == emit_inst(Machine, CurFunc, CurBlock.hhbcs[loc.instIt])
     IN Commit([M EXCEPT !.loc.instIt = @ + 1], "inst")
  /\ UNCHANGED <<unit, ehs, task, pass, first, others, probe>>

\* a variant that synthesizes no jump after the last block of the layout
needs_jump_not_last(order, it, b) ==
  it < Len(order) /\ order[it + 1] # b.fallthrough

\* a jump has to be synthesized after block b
needs_jump(order, it, b) ==
  it = Len(order) \/ order[it + 1] # b.fallthrough

\* info.past = ue.bcPos();
record_past(M, b) ==
  IF M.err # "" THEN M ELSE [M EXCEPT !.ret.blockInfo[b + 1].past = bcPos(M.ue)]

\* a variant that always synthesizes bc::Jmp{}
fallthrough_jmp_always_jmp(M, f, blk) ==
  IF M.err # "" THEN M
  ELSE emit_inst([M EXCEPT !.hist.jumps =
                     Append(@, [from |-> blk.id, off |-> bcPos(M.ue), op |-> "Jmp"])],
                 f, Inst("Jmp", <<>>, <<blk.fallthrough>>))

\* the synthesized jump: bc::JmpNS{} or bc::Jmp{} with target b->fallthrough
fallthrough_jmp(M, f, blk) ==
  IF M.err # "" THEN M
  ELSE emit_inst([M EXCEPT !.hist.jumps =
                     Append(@, [from |-> blk.id, off |-> bcPos(M.ue),
                                op |-> IF blk.fallthroughNS THEN "JmpNS" ELSE "Jmp"])],
                 f,
                 Inst(IF blk.fallthroughNS THEN "JmpNS" ELSE "Jmp", <<>>,
                      <<blk.fallthrough>>))

\* b->exnNode->depth - (parent ? parent->depth : 0), parent being the
\* result of commonParent (-1: nullptr was dereferenced)
regions_to_pop(M, f, b, depth, parent) ==
  IF M.err # "" THEN M
  ELSE IF parent = -1 THEN Fail(M, "commonParent dereferences nullptr")
  ELSE IF depth - (IF parent # 0 THEN Node(f, parent).depth ELSE 0) < 0
  THEN Fail(M, "assert(info.regionsToPop >= 0)")
  ELSE [M EXCEPT !.ret.blockInfo[b + 1].regionsToPop =
                    depth - (IF parent # 0 THEN Node(f, parent).depth ELSE 0)]

\* a variant that leaves every region of the block's path
set_regions_to_pop_to_root(M, f, blk) ==
  IF blk.exnNode = 0 THEN regions_to_pop(M, f, blk.id, 0, 0)
  ELSE regions_to_pop(M, f, blk.id, Node(f, blk.exnNode).depth, 0)

set_regions_to_pop(M, f, blk) ==
  IF blk.exnNode = 0 THEN regions_to_pop(M, f, blk.id, 0, 0)
  ELSE regions_to_pop(M, f, blk.id, Node(f, blk.exnNode).depth,
                      commonParent(f, Blk(f, blk.fallthrough).exnNode, blk.exnNode))

\* a variant that records info.past once more after the synthesized jump
fallthrough_past_after_jump(M, f, blk, jump) ==
  IF jump
  THEN record_past(set_regions_to_pop(fallthrough_jmp(M, f, blk), f, blk), blk.id)
  ELSE M

\* the fallthrough of a block that has one, after set_expected_depth
fallthrough(M, f, blk, jump) ==
  IF jump THEN set_regions_to_pop(fallthrough_jmp(M, f, blk), f, blk) ELSE M

next_block(M) ==
  IF M.err # "" THEN M ELSE [M EXCEPT !.loc.blockIt = @ + 1]

\* the tail of the loop body: info.past, the fallthrough, regionsToPop
block_exit(M, f, b) ==
  next_block(
    IF Blk(f, b).fallthrough = NoBlockId THEN record_past(M, b)
    ELSE fallthrough(set_expected_depth(record_past(M, b), Blk(f, b).fallthrough),
                     f, Blk(f, b),
                     needs_jump(M.ret.blockOrder, M.loc.blockIt, Blk(f, b))))

BlockExit ==
  /\ pc = "inst"
  /\ loc.instIt > Len(CurBlock.hhbcs)
  /\ Commit(block_exit(Machine, CurFunc, CurBlockId), "block")
  /\ UNCHANGED <<unit, ehs, task, pass, first, others, probe>>

CurFe == Len(ue.fes)

\* the end of emit_bytecode (the FPI regions still open are closed at
\* lastOff) and emit_finish_func up to emit_ehent_tree: containsCalls, the
\* FPI table, emit_locals_and_params
EmitBytecodeEnd ==
  /\ pc = "block"
  /\ loc.blockIt > Len(ret.blockOrder)
  /\ LET M == close_fpis(Machine, 0, loc.lastOff)
         P == emit_locals_and_params(CurFunc, M.ret)
         M1 == [M EXCEPT !.ue.fes[CurFe].containsCalls = M.ret.containsCalls,
                         !.ue.fes[CurFe].fpitab = M.ret.fpiRegions,
                         !.ue.fes[CurFe].funcletOff = P.funcletOff,
                         !.ue.fes[CurFe].numLocals = P.id]
     IN Commit(IF P.err # "" THEN Fail(M, P.err) ELSE M1, "eh_walk")
  /\ ehs' = NoEhs
  /\ UNCHANGED <<unit, task, pass, first, others, probe>>

\* emit_ehent_tree: one block of the walk over the layout
EhWalk ==
  /\ pc = "eh_walk"
  /\ ehs.walk <= Len(ret.blockOrder)
  /\ LET E == eh_walk_block(ehs, CurFunc, ret, ret.blockOrder[ehs.walk])
     IN /\ ehs' = [E EXCEPT !.walk = @ + 1]
        /\ err' = E.err
        /\ pc' = IF E.err # "" THEN "abort" ELSE "eh_walk"
  /\ UNCHANGED <<unit, ue, euState, ret, loc, task, hist, pass, first, others, probe>>

\* emit_ehent_tree after the walk: the remaining active nodes are closed, the
\* regions are sorted and emit_eh_region is called on each in that order
EhSortEmit ==
  /\ pc = "eh_walk"
  /\ ehs.walk > Len(ret.blockOrder)
  /\ LET E == eh_walk_end(ehs, ret)
         R == E.regions
         X0 == [ehtab |-> <<>>, emitted |-> <<>>, err |-> "",
                parentIndexMap |-> [r \in 1..Len(R) |-> -1]]
     IN /\ ehs' = E
        /\ \/ /\ E.err # ""
              /\ err' = E.err
              /\ pc' = "abort"
              /\ UNCHANGED <<ue, hist>>
           \/ /\ E.err = ""
              /\ \E a, b \in 1..Len(R) : RegionAssertFails(R, a, b)
              /\ err' = "assert(p == b)"
              /\ pc' = "abort"
              /\ UNCHANGED <<ue, hist>>
           \/ /\ E.err = ""
              /\ \E order \in SortOutcomes(R) :
                   LET X == emit_eh_regions(X0, CurFunc, R, order, ret.blockInfo)
                   IN /\ ue' = [ue EXCEPT !.fes[CurFe].ehtab = X.ehtab,
                                          !.fes[CurFe].ehTabSorted = (X.err = "")]
                      /\ hist' = [hist EXCEPT !.ehRegions = R, !.ehEmitted = X.emitted]
                      /\ err' = X.err
                      /\ pc' = IF X.err # "" THEN "abort" ELSE "finish"
  /\ UNCHANGED <<unit, euState, ret, loc, task, pass, first, others, probe>>

\* the rest of emit_finish_func: maxStackCells and fe.finish
FinishFunc ==
  /\ pc = "finish"
  /\ ue' = [ue EXCEPT
              !.fes[CurFe].maxStackCells =
                 maxStackCells(ret, ue.fes[CurFe].numLocals, CurFunc),
              !.fes[CurFe].past = bcPos(ue)]
  /\ pc' = "unit"
  /\ task' = task + 1
  /\ UNCHANGED <<unit, euState, ret, loc, ehs, err, hist, pass, first, others, probe>>

\* a variant that writes every entry of defClsMap
set_offsets_all(u, defClsMap) ==
  [u EXCEPT !.pces = [id \in 1..Len(@) |-> [@[id] EXCEPT !.offset = defClsMap[id]]]]

\* the last loop of emit_unit: the recorded DefCls offsets go to the
\* pre-class emitters
set_offsets(u, defClsMap) ==
  [u EXCEPT !.pces = [id \in 1..Len(@) |->
      IF defClsMap[id] # kInvalidOffset
      THEN [@[id] EXCEPT !.offset = defClsMap[id]]
      ELSE @[id]]]

SetOffsets ==
  /\ pc = "unit"
  /\ CurTask.kind = "offsets"
  /\ ue' = set_offsets(ue, euState.defClsMap)
  /\ pc' = "done"
  /\ pass' = pass + 1
  /\ first' = IF pass = 0 THEN [ue |-> ue', unit |-> unit, layouts |-> hist.layouts]
               ELSE first
  /\ UNCHANGED <<unit, euState, ret, loc, ehs, task, err, hist, others, probe>>

\* emit_unit is called again on the unit it has just emitted
EmitAgain ==
  /\ pc = "done"
  /\ pass = 1
  /\ ue' = NewUnitEmitter
  /\ euState' = NewEuState(unit)
  /\ ret' = NoRet
  /\ loc' = NoLoc
  /\ ehs' = NoEhs
  /\ pc' = "unit"
  /\ task' = 1
  /\ hist' = InitHist
  /\ UNCHANGED <<unit, err, pass, first, others, probe>>

\* what one call of emit_unit works on: its unit, its UnitEmitter, its
\* EmitUnitState, the locals of the function it is emitting, and where it is
Invocation ==
  [unit |-> unit, ue |-> ue, euState |-> euState, ret |-> ret, loc |-> loc,
   ehs |-> ehs, pc |-> pc, task |-> task, err |-> err, hist |-> hist]

\* a call of emit_unit on unit u that has not taken a step
Fresh(u) ==
  [unit |-> u, ue |-> NewUnitEmitter, euState |-> NewEuState(u), ret |-> NoRet,
   loc |-> NoLoc, ehs |-> NoEhs, pc |-> "unit", task |-> 1, err |-> "",
   hist |-> InitHist]

\* a variant in which the calls share one EmitUnitState
emit_unit_state_static(c) == euState

\* the EmitUnitState of a call: a local of emit_unit
emit_unit_state(c) == c.euState

\* the thread goes on with call c
Resume(c) ==
  /\ unit' = c.unit
  /\ ue' = c.ue
  /\ euState' = emit_unit_state(c)
  /\ ret' = c.ret
  /\ loc' = c.loc
  /\ ehs' = c.ehs
  /\ pc' = c.pc
  /\ task' = c.task
  /\ err' = c.err
  /\ hist' = c.hist

Ended(c) == c.pc \in {"done", "abort"}

\* after emit_unit has run alone, two calls of emit_unit start, each on its
\* own unit with its own sink; the first of them runs
StartPair ==
  /\ pc = "done"
  /\ pass = 1
  /\ others.running = 0
  /\ Len(others.saved) = 2
  /\ Resume(others.saved[1])
  /\ others' = [running |-> 1, mixed |-> FALSE, saved |-> <<others.saved[2]>>]
  /\ UNCHANGED <<pass, first, probe>>

\* the scheduler suspends the running call and goes on with the other one
Switch ==
  /\ others.running \in {1, 2}
  /\ ~Ended(others.saved[1])
  /\ Resume(others.saved[1])
  /\ others' = [running |-> 3 - others.running,
                 mixed |-> others.mixed
                             \/ (~Ended(Invocation) /\ Invocation # Fresh(unit)),
                 saved |-> <<Invocation>>]
  /\ UNCHANGED <<pass, first, probe>>

\* commonParent called on two nodes (or null) of the tree of the unit's
\* function
CallCommonParent ==
  /\ ~probe.called
  /\ probe' = [probe EXCEPT !.called = TRUE,
                             !.result = commonParent(unit.funcs[1], probe.a, probe.b)]
  /\ UNCHANGED <<unit, ue, euState, ret, loc, ehs, pc, task, err, hist, pass, first,
                 others>>

Next ==
  \/ EmitClass
  \/ StartFunc
  \/ BlockEntry
  \/ EmitInst
  \/ BlockExit
  \/ EmitBytecodeEnd
  \/ EhWalk
  \/ EhSortEmit
  \/ FinishFunc
  \/ SetOffsets

----------------------------------------------------------------------------
(* The units emitted.  Every unit has the pseudomain `return 1`; the       *)
(* function under study is its only top-level function.                    *)

NumBlocks == 3

BlockIds == 0..(NumBlocks - 1)

I(op) == Inst(op, <<>>, <<>>)

IA(op, a) == Inst(op, <<a>>, <<>>)

\* the factored exits of a block: the handlers of its node and of the node's
\* ancestors, innermost first
RECURSIVE HandlersOf(_, _)
HandlersOf(nodes, n) ==
  IF n = 0 THEN <<>> ELSE <<nodes[n].entry>> \o HandlersOf(nodes, nodes[n].parent)

MkBlock(id, hhbcs, ft, ns, section, node, nodes) ==
  [id |-> id, hhbcs |-> hhbcs, section |-> section, fallthrough |-> ft,
   fallthroughNS |-> ns, exnNode |-> node, factoredExits |-> HandlersOf(nodes, node)]

MkFunc(blocks, params, locals, nodes) ==
  [blocks |-> blocks, mainEntry |-> 0, params |-> params, locals |-> locals,
   exnNodes |-> nodes, numIters |-> 0, numClsRefSlots |-> 0]

MainFunc ==
  MkFunc(<<MkBlock(0, <<IA("Int", 1), I("RetC")>>, NoBlockId, FALSE, "Main", 0, <<>>)>>,
         <<>>, <<>>, <<>>)

MkUnit(classes, funcs) == [pseudomain |-> MainFunc, classes |-> classes, funcs |-> funcs]

\* every block is reachable from the main entry or from a DV entry
AllReachable(f) == Len(order_input(f)) = Len(f.blocks)

\* A shape describes a block relative to its id: the targets and the
\* fallthrough of a shape are distances, block id + distance (modulo the
\* number of blocks) being the block meant; NoBlockId is no fallthrough.
Sh(body, ft, ns) == [body |-> body, ft |-> ft, ns |-> ns, section |-> "Main", node |-> 0]

IT(op, rels) == Inst(op, <<>>, rels)

ShapeBlock(id, sh, nodes) ==
  MkBlock(id,
          [k \in 1..Len(sh.body) |->
             [sh.body[k] EXCEPT !.targets =
                [t \in 1..Len(@) |-> (id + @[t]) % NumBlocks]]],
          IF sh.ft = NoBlockId THEN NoBlockId ELSE (id + sh.ft) % NumBlocks,
          sh.ns, sh.section, sh.node, nodes)

\* the functions of NumBlocks blocks whose blocks have shapes of S
FuncsOf(S, params, locals, nodes) ==
  {f \in {MkFunc([b \in 1..NumBlocks |-> ShapeBlock(b - 1, shs[b], nodes)],
                 params, locals, nodes) : shs \in [1..NumBlocks -> S]} :
     AllReachable(f)}

\* a unit with a class, a method and a function
CoreUnit ==
  MkUnit(<<[methods |-> <<MainFunc>>]>>, <<MainFunc>>)

\* conditional and table branches, forwards, backwards and to the block
\* itself; blocks that emit no byte; fallthroughs that need a jump
BranchShapes ==
  {Sh(<<I("Nop")>>, 1, FALSE),
   Sh(<<I("Nop")>>, 2, TRUE),
   Sh(<<IA("Int", 1), IT("JmpZ", <<0>>)>>, 1, FALSE),
   Sh(<<IA("Int", 1), IT("JmpZ", <<2>>)>>, 1, FALSE),
   Sh(<<IA("Int", 1), IT("JmpZ", <<1>>)>>, 2, FALSE),
   Sh(<<IA("Int", 1), Inst("Switch", <<0, 0>>, <<1, 2>>)>>, NoBlockId, FALSE),
   Sh(<<IA("Int", 1), IT("SSwitch", <<2, 0, 1>>)>>, NoBlockId, FALSE),
   Sh(<<IA("Int", 1), I("RetC")>>, NoBlockId, FALSE)}

UnitsBranch ==
  {MkUnit(<<>>, <<f>>) : f \in FuncsOf(BranchShapes, <<>>, <<>>, <<>>)} \cup {CoreUnit}

InitBranch == \E u \in UnitsBranch : InitWith(u)

SpecBranch == InitBranch /\ [][Next]_vars

\* blocks that change the stack depth, merges of a branch and a fallthrough
\* at equal and at different depths, a branch back to a block already entered
DepthShapes ==
  {Sh(<<IA("Int", 1)>>, 1, FALSE),
   Sh(<<IA("Int", 1), IA("Int", 1), IT("JmpZ", <<1>>)>>, 1, FALSE),
   Sh(<<IA("Int", 1), IT("JmpZ", <<2>>)>>, 1, FALSE),
   Sh(<<I("PopC")>>, 1, FALSE),
   Sh(<<I("Nop")>>, 2, FALSE),
   Sh(<<IA("Int", 1), IA("Int", 1), IT("JmpZ", <<0>>)>>, 1, FALSE),
   Sh(<<I("RetC")>>, NoBlockId, FALSE),
   Sh(<<IA("Int", 1), I("RetC")>>, NoBlockId, FALSE)}

UnitsDepth ==
  {MkUnit(<<>>, <<f>>) : f \in FuncsOf(DepthShapes, <<>>, <<>>, <<>>)} \cup {CoreUnit}

InitDepth == \E u \in UnitsDepth : InitWith(u)

SpecDepth == InitDepth /\ [][Next]_vars

\* a frame with locals (one of them killed), iterators and class-ref slots
FrameLocals ==
  <<[id |-> 0, killed |-> FALSE], [id |-> 1, killed |-> TRUE],
    [id |-> 2, killed |-> FALSE]>>

WithFrame(f, iters, slots) == [f EXCEPT !.numIters = iters, !.numClsRefSlots = slots]

FPush(n) == Inst("FPushFuncD", <<n, 1>>, <<>>)

\* calls completed inside a block and across blocks, nested calls, regions
\* left open by a terminal instruction or by the end of the function
FPIShapes ==
  {Sh(<<FPush(0)>>, 1, FALSE),
   Sh(<<IA("FCall", 0), I("PopC")>>, 1, FALSE),
   Sh(<<FPush(0), FPush(0), IA("FCall", 0), I("PopC")>>, 1, FALSE),
   Sh(<<FPush(0), IA("CGetL", 2), I("Throw")>>, NoBlockId, FALSE),
   Sh(<<FPush(0), IA("Int", 1), IT("JmpZ", <<2>>)>>, 1, FALSE),
   Sh(<<IA("Int", 1), I("RetC")>>, NoBlockId, FALSE),
   Sh(<<FPush(1), IA("Int", 1), IA("FCall", 1)>>, 1, FALSE),
   Sh(<<I("RetC")>>, NoBlockId, FALSE),
   Sh(<<I("Nop")>>, 2, FALSE)}

UnitsFPI ==
  {MkUnit(<<>>, <<WithFrame(f, 1, 3)>>) : f \in FuncsOf(FPIShapes, <<>>, FrameLocals, <<>>)}
    \cup {CoreUnit}

InitFPI == \E u \in UnitsFPI : InitWith(u)

SpecFPI == InitFPI /\ [][Next]_vars

\* the exception tree: node 2 inside node 1, node 3 beside them; the last
\* block is the handler of every node
EHNodes ==
  <<[parent |-> 0, depth |-> 1, kind |-> "Catch", entry |-> NumBlocks - 1],
    [parent |-> 1, depth |-> 2, kind |-> "Fault", entry |-> NumBlocks - 1],
    [parent |-> 0, depth |-> 1, kind |-> "Catch", entry |-> NumBlocks - 1]>>

ShN(body, ft, node) == [Sh(body, ft, FALSE) EXCEPT !.node = node]

\* protected blocks with and without bytes, in nested and in unrelated
\* nodes, left by falling through and by a jump out of the region
EHShapes ==
  {ShN(<<IA("Int", 1), I("PopC")>>, 1, 1),
   ShN(<<IA("Int", 1), I("PopC")>>, 1, 2),
   ShN(<<I("Nop")>>, 1, 2),
   ShN(<<I("Nop")>>, 1, 3),
   ShN(<<IA("Int", 1), I("PopC")>>, 2, 2),
   ShN(<<IA("Int", 1), I("PopC")>>, 1, 3),
   ShN(<<I("Nop")>>, 2, 1),
   ShN(<<IA("Int", 1), I("PopC")>>, 1, 0),
   ShN(<<IA("Int", 1), I("RetC")>>, NoBlockId, 0)}

\* two blocks without bytes in unrelated nodes, one after the other: their
\* regions are empty and have the same extents
EmptyRegionsFunc ==
  MkFunc(<<MkBlock(0, <<IA("Int", 1), I("PopC")>>, 1, FALSE, "Main", 1, EHNodes),
           MkBlock(1, <<I("Nop")>>, 2, FALSE, "Main", 2, EHNodes),
           MkBlock(2, <<I("Nop")>>, 3, FALSE, "Main", 3, EHNodes),
           MkBlock(3, <<IA("Int", 1), I("RetC")>>, NoBlockId, FALSE, "Main", 0, EHNodes)>>,
         <<>>, <<>>, EHNodes)

UnitsEH ==
  {MkUnit(<<>>, <<f>>) : f \in FuncsOf(EHShapes, <<>>, <<>>, EHNodes)}
    \cup {MkUnit(<<>>, <<EmptyRegionsFunc>>), CoreUnit}

InitEH == \E u \in UnitsEH : InitWith(u)

SpecEH == InitEH /\ [][Next]_vars

NumClasses == 2

ClassIds == 0..(NumClasses - 1)

\* class definitions: DefCls or DefClsNop of a class of the unit
DefInsts == {IA(op, id) : op \in {"DefCls", "DefClsNop"}, id \in ClassIds}

\* up to two class definitions
DefSeqs == {<<>>} \cup {<<d>> : d \in DefInsts} \cup {<<d, e>> : d, e \in DefInsts}

\* a function of one block: the definitions, then `return 1`
DefFunc(defs) ==
  MkFunc(<<MkBlock(0, defs \o <<IA("Int", 1), I("RetC")>>, NoBlockId, FALSE, "Main",
                   0, <<>>)>>,
         <<>>, <<>>, <<>>)

\* units of NumClasses classes (each with a method) whose pseudomain and
\* function define some of the classes, in either order, possibly twice
UnitsCls ==
  {[pseudomain |-> DefFunc(p),
    classes |-> [c \in 1..NumClasses |-> [methods |-> <<MainFunc>>]],
    funcs |-> <<DefFunc(d)>>] : p \in DefSeqs, d \in {s \in DefSeqs : Len(s) <= 1}}

InitCls == \E u \in UnitsCls : InitWith(u)

SpecCls == InitCls /\ [][Next]_vars

\* the main entry is in the Main section, an edge that is not a factored
\* exit stays in its section, and the handler of node 1 is a fault funclet
SectionsRespected(f) ==
  /\ Blk(f, f.mainEntry).section = "Main"
  /\ \A b \in 0..(Len(f.blocks) - 1) :
        /\ \A k \in 1..Len(Last(Blk(f, b).hhbcs).targets) :
              Blk(f, Last(Blk(f, b).hhbcs).targets[k]).section = Blk(f, b).section
        /\ Blk(f, b).fallthrough # NoBlockId =>
              Blk(f, Blk(f, b).fallthrough).section = Blk(f, b).section
        /\ Blk(f, b).exnNode # 0 =>
              Blk(f, Entry(f, Blk(f, b).exnNode)).section = "Fault"
  /\ \A i \in 1..Len(f.params) :
        f.params[i].dvEntryPoint # NoBlockId =>
          Blk(f, f.params[i].dvEntryPoint).section = "Main"

\* a fault region whose funclet starts at the last block
FaultNodes == <<[parent |-> 0, depth |-> 1, kind |-> "Fault", entry |-> NumBlocks - 1]>>

ShF(body, ft) == [Sh(body, ft, FALSE) EXCEPT !.section = "Fault"]

\* main blocks, protected or not, and funclet blocks
OrderShapes ==
  {Sh(<<I("Nop")>>, 1, FALSE),
   Sh(<<I("Nop")>>, 2, FALSE),
   Sh(<<IA("Int", 1), I("RetC")>>, NoBlockId, FALSE),
   Sh(<<IA("Int", 1), IT("JmpZ", <<2>>)>>, 1, FALSE),
   ShN(<<IA("Int", 1), I("PopC")>>, 1, 1),
   ShN(<<IA("Int", 1), IT("JmpZ", <<1>>)>>, 1, 1),
   ShN(<<IA("Int", 1), I("RetC")>>, NoBlockId, 1),
   ShF(<<I("Unwind")>>, NoBlockId),
   ShF(<<I("Nop")>>, 1)}

\* no parameter, or one parameter with or without a DV initializer
OrderParams == {<<>>, <<[dvEntryPoint |-> NoBlockId]>>, <<[dvEntryPoint |-> 1]>>}

ParamLocals(params) == [i \in 1..Len(params) |-> [id |-> i - 1, killed |-> FALSE]]

\* a funclet that comes before a main block in RPO, and a block reachable
\* from the DV entry only
DVFunc ==
  MkFunc(<<MkBlock(0, <<IA("Int", 1), Inst("JmpZ", <<>>, <<1>>)>>, 1, FALSE, "Main", 1,
                   FaultNodes),
           MkBlock(1, <<IA("Int", 1), I("RetC")>>, NoBlockId, FALSE, "Main", 0, FaultNodes),
           MkBlock(2, <<I("Unwind")>>, NoBlockId, FALSE, "Fault", 0, FaultNodes),
           MkBlock(3, <<I("Nop")>>, 0, FALSE, "Main", 0, FaultNodes)>>,
         <<[dvEntryPoint |-> 3]>>, ParamLocals(<<[dvEntryPoint |-> 3]>>), FaultNodes)

UnitsOrder ==
  {MkUnit(<<>>, <<f>>) :
     f \in {g \in UNION {FuncsOf(OrderShapes, ps, ParamLocals(ps), FaultNodes) :
                           ps \in OrderParams} : SectionsRespected(g)}}
    \cup {MkUnit(<<>>, <<DVFunc>>), CoreUnit}

InitOrder == \E u \in UnitsOrder : InitWith(u)

SpecOrder == InitOrder /\ [][Next]_vars

\* a call whose FPush and FCall are in different blocks, the first ending in
\* a terminal jump to the second; nested calls across the jump; a conditional
\* branch around a call
CallShapes ==
  {Sh(<<FPush(0), IT("Jmp", <<1>>)>>, NoBlockId, FALSE),
   Sh(<<FPush(0), IT("Jmp", <<2>>)>>, NoBlockId, FALSE),
   Sh(<<IA("Int", 1), FPush(1), IA("Int", 1), IT("Jmp", <<1>>)>>, NoBlockId, FALSE),
   Sh(<<FPush(0), FPush(0), IT("Jmp", <<1>>)>>, NoBlockId, FALSE),
   Sh(<<IA("FCall", 0), I("RetC")>>, NoBlockId, FALSE),
   Sh(<<IA("FCall", 1), I("PopC"), I("RetC")>>, NoBlockId, FALSE),
   Sh(<<IA("FCall", 0), IA("FCall", 1), I("RetC")>>, NoBlockId, FALSE),
   Sh(<<IA("FCall", 0), I("PopC")>>, 1, FALSE),
   Sh(<<IA("Int", 1), IT("JmpZ", <<2>>)>>, 1, FALSE),
   Sh(<<IA("Int", 1), I("PopC")>>, 1, FALSE),
   Sh(<<IA("Int", 1), I("RetC")>>, NoBlockId, FALSE)}

UnitsCall ==
  {MkUnit(<<>>, <<f>>) : f \in FuncsOf(CallShapes, <<>>, <<>>, <<>>)} \cup {CoreUnit}

InitCall == \E u \in UnitsCall : InitWith(u)

SpecCall == InitCall /\ [][Next]_vars

\* a conditional branch in the middle of a block: its target is no successor
\* of the block, so the walk of order_blocks does not reach the target from it
DanglingShapes ==
  {Sh(<<IA("Int", 1), IT("JmpZ", <<1>>), IA("Int", 1), I("RetC")>>, NoBlockId, FALSE),
   Sh(<<IA("Int", 1), IT("JmpZ", <<2>>), IA("Int", 1), I("PopC")>>, 1, FALSE),
   Sh(<<IA("Int", 1), I("PopC")>>, 1, FALSE),
   Sh(<<IA("Int", 1), I("RetC")>>, NoBlockId, FALSE)}

\* the functions of these shapes in which a block is not in the layout
DanglingFuncs ==
  {f \in {MkFunc([b \in 1..NumBlocks |-> ShapeBlock(b - 1, shs[b], <<>>)],
                 <<>>, <<>>, <<>>) : shs \in [1..NumBlocks -> DanglingShapes]} :
     ~AllReachable(f)}

UnitsDangling == {MkUnit(<<>>, <<f>>) : f \in DanglingFuncs} \cup {CoreUnit}

InitDangling == \E u \in UnitsDangling : InitWith(u)

SpecDangling == InitDangling /\ [][Next]_vars

\* the depth shapes, a terminal jump taken with two values on the stack and
\* a block that pops three values
StackShapes ==
  DepthShapes \cup
    {Sh(<<IA("Int", 1), IA("Int", 1), IT("Jmp", <<1>>)>>, NoBlockId, FALSE),
     Sh(<<I("PopC"), I("PopC"), I("PopC")>>, 1, FALSE)}

UnitsStack ==
  {MkUnit(<<>>, <<f>>) : f \in FuncsOf(StackShapes, <<>>, <<>>, <<>>)} \cup {CoreUnit}

InitStack == \E u \in UnitsStack : InitWith(u)

SpecStack == InitStack /\ [][Next]_vars

\* Nops alone in a block, in pairs and among other instructions
NopShapes ==
  {Sh(<<I("Nop")>>, 1, FALSE),
   Sh(<<I("Nop"), I("Nop")>>, 1, FALSE),
   Sh(<<I("Nop"), IA("Int", 1), I("Nop"), I("PopC")>>, 1, FALSE),
   Sh(<<I("Nop")>>, 2, FALSE),
   Sh(<<IA("Int", 1), I("Nop"), IT("JmpZ", <<2>>)>>, 1, FALSE),
   Sh(<<I("Nop"), IT("Jmp", <<1>>)>>, NoBlockId, FALSE),
   Sh(<<IA("Int", 1), I("Nop"), I("RetC")>>, NoBlockId, FALSE)}

UnitsNop ==
  {MkUnit(<<>>, <<f>>) : f \in FuncsOf(NopShapes, <<>>, <<>>, <<>>)} \cup {CoreUnit}

InitNop == \E u \in UnitsNop : InitWith(u)

SpecNop == InitNop /\ [][Next]_vars

\* a first block that order_blocks rewrites, branches, a local, a call, a
\* protected block
TwiceShapes ==
  {Sh(<<I("Nop")>>, 1, FALSE),
   Sh(<<IA("Int", 1), IT("JmpZ", <<2>>)>>, 1, FALSE),
   ShN(<<IA("CGetL", 2), I("PopC")>>, 1, 1),
   Sh(<<FPush(1), IA("Int", 1), IA("FCall", 1), I("RetC")>>, NoBlockId, FALSE),
   Sh(<<IA("CGetL", 2), I("RetC")>>, NoBlockId, FALSE),
   ShN(<<I("Nop")>>, 2, 2)}

UnitsTwice ==
  {MkUnit(<<>>, <<f>>) : f \in FuncsOf(TwiceShapes, <<>>, FrameLocals, EHNodes)}
    \cup {CoreUnit}

InitTwice == \E u \in UnitsTwice : InitWith(u)

\* emit_unit, and emit_unit once more on the same unit
SpecTwice == InitTwice /\ [][Next \/ EmitAgain]_vars

\* the locals of a function as the IR holds them before emit_unit: the id of
\* a local is its index, and the locals of K are killed
LocalsWith(K) ==
  [i \in 1..Len(FrameLocals) |-> [id |-> i - 1, killed |-> (i - 1) \in K]]

KilledSets == {{}, {1}, {0, 1}, {2}}

\* a function of one block that reads local k and returns it
LocalFunc(K, k) ==
  MkFunc(<<MkBlock(0, <<IA("CGetL", k), I("RetC")>>, NoBlockId, FALSE, "Main", 0, <<>>)>>,
         <<>>, LocalsWith(K), <<>>)

LocalFuncs == {LocalFunc(K, k) : K \in KilledSets, k \in 0..(Len(FrameLocals) - 1)}

\* units whose pseudomain, method and function have locals, some killed, and
\* read a live or a killed local
UnitsLocal ==
  {[pseudomain |-> p, classes |-> <<[methods |-> <<f>>]>>, funcs |-> <<f>>] :
     p \in LocalFuncs, f \in LocalFuncs}

InitLocal == \E u \in UnitsLocal : InitWith(u)

SpecLocal == InitLocal /\ [][Next]_vars

\* branches taken with one and with two values on the stack, a conditional
\* branch and a table branch on an empty stack, a terminal jump
EncShapes ==
  {Sh(<<IA("Int", 1), IA("Int", 1), IT("JmpZ", <<1>>)>>, 1, FALSE),
   Sh(<<IA("Int", 1), IT("JmpZ", <<2>>)>>, 1, FALSE),
   Sh(<<IT("JmpZ", <<1>>)>>, 1, FALSE),
   Sh(<<Inst("Switch", <<0, 0>>, <<1, 2>>)>>, NoBlockId, FALSE),
   Sh(<<IA("Int", 1), IA("Int", 1), Inst("Switch", <<0, 0>>, <<1, 2>>)>>, NoBlockId, FALSE),
   Sh(<<I("PopC")>>, 1, FALSE),
   Sh(<<IA("Int", 1), IA("Int", 1), IT("Jmp", <<1>>)>>, NoBlockId, FALSE),
   Sh(<<IA("Int", 1), I("RetC")>>, NoBlockId, FALSE)}

UnitsEnc ==
  {MkUnit(<<>>, <<f>>) : f \in FuncsOf(EncShapes, <<>>, <<>>, <<>>)} \cup {CoreUnit}

InitEnc == \E u \in UnitsEnc : InitWith(u)

SpecEnc == InitEnc /\ [][Next]_vars

NumNodes == 3

NodeIds == 1..NumNodes

\* the depth of node n when p gives the parents: the length of its path
RECURSIVE DepthIn(_, _)
DepthIn(p, n) == IF p[n] = 0 THEN 1 ELSE 1 + DepthIn(p, p[n])

\* the exception trees of NumNodes nodes: the parent of a node is null or a
\* node created before it, the depth of a node is the length of its path,
\* and its handler is block 1 or block 2
Trees ==
  {[n \in NodeIds |-> [parent |-> p[n], depth |-> DepthIn(p, n), kind |-> "Catch",
                        entry |-> e[n]]] :
     p \in {q \in [NodeIds -> 0..(NumNodes - 1)] : \A n \in NodeIds : q[n] < n},
     e \in [NodeIds -> {1, 2}]}

\* a function with the exception tree `nodes`: a protected block and the
\* two handlers
TreeFunc(nodes) ==
  MkFunc(<<MkBlock(0, <<IA("Int", 1), I("RetC")>>, NoBlockId, FALSE, "Main", 1, nodes),
           MkBlock(1, <<IA("Int", 1), I("RetC")>>, NoBlockId, FALSE, "Main", 0, nodes),
           MkBlock(2, <<IA("Int", 1), I("RetC")>>, NoBlockId, FALSE, "Main", 0, nodes)>>,
         <<>>, <<>>, nodes)

\* commonParent is about to be called on two nodes of a tree, or on null
InitTree ==
  \E t \in Trees, a, b \in 0..NumNodes :
     /\ InitEmit(MkUnit(<<>>, <<TreeFunc(t)>>))
     /\ others = NoOthers
     /\ probe = [NoProbe EXCEPT !.a = a, !.b = b]

SpecTree == InitTree /\ [][CallCommonParent]_vars

\* calls whose FPush is in a protected block: the call in the same node, the
\* call in an unprotected block reached by a jump, a region left open by a
\* throw; the last block is the handler
TryShapes ==
  {ShN(<<FPush(0), IT("Jmp", <<1>>)>>, NoBlockId, 1),
   ShN(<<FPush(0), IT("Jmp", <<1>>)>>, NoBlockId, 0),
   ShN(<<FPush(0)>>, 1, 1),
   ShN(<<IA("FCall", 0), I("RetC")>>, NoBlockId, 0),
   ShN(<<IA("FCall", 0), I("RetC")>>, NoBlockId, 1),
   ShN(<<FPush(0), IA("Int", 1), I("Throw")>>, NoBlockId, 1),
   ShN(<<IA("Int", 1), IT("JmpZ", <<2>>)>>, 1, 0),
   ShN(<<IA("Int", 1), I("RetC")>>, NoBlockId, 0)}

UnitsTry ==
  {MkUnit(<<>>, <<f>>) : f \in FuncsOf(TryShapes, <<>>, <<>>, EHNodes)} \cup {CoreUnit}

InitTry == \E u \in UnitsTry : InitWith(u)

SpecTry == InitTry /\ [][Next]_vars

\* two fault regions: the funclet of node 1 starts at block 1, the funclet of
\* node 2 at block 2
NestedNodes ==
  <<[parent |-> 0, depth |-> 1, kind |-> "Fault", entry |-> 1],
    [parent |-> 0, depth |-> 1, kind |-> "Fault", entry |-> 2]>>

\* a main block protected by node 1, whose funclet is the blocks 1 and 3;
\* block 1 is protected by node 2 and leaves to block 3 as exit says, block 3
\* is in node tNode
FuncletFunc(exit, tNode) ==
  MkFunc(<<MkBlock(0, <<IA("Int", 1), I("RetC")>>, NoBlockId, FALSE, "Main", 1, NestedNodes),
           MkBlock(1, exit.body, exit.ft, FALSE, "Fault", 2, NestedNodes),
           MkBlock(2, <<I("Unwind")>>, NoBlockId, FALSE, "Fault", 0, NestedNodes),
           MkBlock(3, <<I("Unwind")>>, NoBlockId, FALSE, "Fault", tNode, NestedNodes)>>,
         <<>>, <<>>, NestedNodes)

\* by fallthrough, by a jump, by a conditional branch
FuncletExits ==
  {[body |-> <<IA("Int", 1), I("PopC")>>, ft |-> 3],
   [body |-> <<IT("Jmp", <<3>>)>>, ft |-> NoBlockId],
   [body |-> <<IA("Int", 1), IT("JmpZ", <<3>>)>>, ft |-> 3]}

UnitsFunclet ==
  {MkUnit(<<>>, <<FuncletFunc(x, n)>>) : x \in FuncletExits, n \in {0, 2}}
    \cup {MkUnit(<<>>, <<DVFunc>>), CoreUnit}

InitFunclet == \E u \in UnitsFunclet : InitWith(u)

SpecFunclet == InitFunclet /\ [][Next]_vars

\* units with different classes, class definitions and locals
PairUnits ==
  {[pseudomain |-> DefFunc(<<IA("DefCls", 0)>>),
    classes |-> [c \in 1..NumClasses |-> [methods |-> <<MainFunc>>]],
    funcs |-> <<DefFunc(<<>>)>>],
   [pseudomain |-> MainFunc,
    classes |-> <<[methods |-> <<MainFunc>>]>>,
    funcs |-> <<DefFunc(<<IA("DefClsNop", 0)>>)>>],
   MkUnit(<<>>, <<LocalFunc({1}, 2)>>)}

\* emit_unit alone on the first unit, then a call on the first and a call on
\* the second unit
InitPair ==
  \E u1, u2 \in PairUnits :
     /\ u1 # u2
     /\ InitEmit(u1)
     /\ others = [running |-> 0, mixed |-> FALSE, saved |-> <<Fresh(u1), Fresh(u2)>>]
     /\ probe = NoProbe

\* two calls of emit_unit, interleaved in every order
SpecPair == InitPair /\ [][Next \/ StartPair \/ Switch]_vars

\* functions with DV entry points and funclets, and functions with a block
\* that no entry point reaches
InitReach == InitOrder \/ InitDangling

SpecReach == InitReach /\ [][Next]_vars

----------------------------------------------------------------------------
(* Properties.                                                             *)

\* emit_bytecode has returned for the function being emitted
BytecodeDone == pc \in {"eh_walk", "finish"}

\* the block a branch site targets, and the value of its immediate
TargetOffset(br) == ret.blockInfo[br.target + 1].offset

Immediate(br) == readInt32(ue.bc, br.jmpImmedOff)

BranchSites == {hist.branches[i] : i \in 1..Len(hist.branches)}

\* C1: once emit_bytecode has finished, the immediate of every branch site
\* (single targets, branch-table entries, string-switch entries) is the
\* offset of the target block minus the start offset of the branching
\* opcode, for backward branches and for patched forward branches alike.
C1_BranchImmediates ==
  BytecodeDone =>
    \A br \in BranchSites : Immediate(br) = TargetOffset(br) - br.instrOff

\* a function with a backward branch, a forward branch and a table entry
C1_Witness ==
  /\ BytecodeDone
  /\ \E br \in BranchSites : TargetOffset(br) < br.instrOff /\ Immediate(br) < 0
  /\ \E br \in BranchSites : TargetOffset(br) > br.instrOff /\ Immediate(br) > 0
  /\ \E br \in BranchSites : br.jmpImmedOff > br.instrOff + 5

\* C3: once emit_bytecode has finished, every branch immediate resolves to
\* the start offset of an instruction emitted for the same function.
C3_BranchTargetsAreInstructions ==
  BytecodeDone =>
    \A br \in BranchSites : br.instrOff + Immediate(br) \in hist.starts

\* the blocks of the function being emitted that consist of Nops only
NopOnly(b) ==
  \A k \in 1..Len(Blk(CurFunc, b).hhbcs) : Blk(CurFunc, b).hhbcs[k].op = "Nop"

\* a branch to a block of skipped Nops laid out last
C3_Witness ==
  /\ BytecodeDone
  /\ \E br \in BranchSites :
       /\ NopOnly(br.target)
       /\ Last(ret.blockOrder) = br.target
       /\ br.instrOff + Immediate(br) \in hist.starts

Expects == {hist.expects[i] : i \in 1..Len(hist.expects)}

Entries == {hist.entries[i] : i \in 1..Len(hist.entries)}

\* the calls of set_expected_depth on block b made before entry e
ExpectsBefore(e) == {hist.expects[i] : i \in 1..e.nexp}

DepthAssertion ==
  /\ pc = "abort"
  /\ err \in {"assert(*info.expectedStackDepth == currentStackDepth)",
              "assert(*info.expectedFPIDepth == fpiStack.size())"}

\* C2: the depth with which a block is entered is the depth recorded by
\* every set_expected_depth call on it (from a branch or a fallthrough); a
\* call with a stack depth or an FPI depth that differs from the block's is
\* an assertion failure; a block entered before any such call is entered
\* with depth 0.
C2_ExpectedDepth ==
  /\ \A e \in Entries : \A x \in Expects :
        x.target = e.block /\ (x.depth # e.depth \/ x.fpi # e.fpi) => DepthAssertion
  /\ \A x, y \in Expects :
        x.target = y.target /\ (x.depth # y.depth \/ x.fpi # y.fpi) => DepthAssertion
  /\ \A e \in Entries :
        (\A x \in ExpectsBefore(e) : x.target # e.block) => e.depth = 0

\* a block entered at depth 1 from a branch and a fallthrough, the entry
\* block entered at depth 0, and then a branch back at another depth
C2_Witness ==
  /\ DepthAssertion
  /\ \E e \in Entries :
       /\ e.depth = 0
       /\ \A x \in ExpectsBefore(e) : x.target # e.block
       /\ \E x \in Expects : x.target = e.block /\ x.depth # 0
  /\ \E e \in Entries :
       /\ e.depth > 0
       /\ Cardinality({i \in 1..e.nexp : hist.expects[i].target = e.block}) >= 2
       /\ \A x \in ExpectsBefore(e) : x.target = e.block => x.depth = e.depth

FpiRegions == {ret.fpiRegions[i] : i \in 1..Len(ret.fpiRegions)}

FpiDisjoint(a, b) == a.fpiEndOff < b.fpushOff \/ b.fpiEndOff < a.fpushOff

\* b lies inside a
FpiNested(a, b) == a.fpushOff < b.fpushOff /\ b.fpiEndOff <= a.fpiEndOff

\* C4: when emit_bytecode returns the FPI regions are well-parenthesized
\* (any two are disjoint or nested) and every region has
\* fpushOff < fpiEndOff, however the region was closed.
C4_FpiRegionsNest ==
  BytecodeDone =>
    /\ \A r \in FpiRegions : r.fpushOff < r.fpiEndOff
    /\ \A i, j \in 1..Len(ret.fpiRegions) :
          i # j => \/ FpiDisjoint(ret.fpiRegions[i], ret.fpiRegions[j])
                   \/ FpiNested(ret.fpiRegions[i], ret.fpiRegions[j])
                   \/ FpiNested(ret.fpiRegions[j], ret.fpiRegions[i])

\* the region ends at the opcode of an FCall
ClosedByFCall(r) == ue.bc[r.fpiEndOff + 1] = OpByte("FCall")

\* a nested pair of regions, one closed by its FCall and one closed at lastOff
C4_Witness ==
  /\ BytecodeDone
  /\ \E a, b \in FpiRegions : FpiNested(a, b)
  /\ \E r \in FpiRegions : ClosedByFCall(r)
  /\ \E r \in FpiRegions : ~ClosedByFCall(r)

\* the function whose emission has just been committed, and its emitter
FuncCommitted ==
  /\ pc \in {"unit", "done"}
  /\ task > 1
  /\ Tasks(unit)[task - 1].kind \in {"pseudomain", "method", "func"}

LastFunc == GetFunc(unit, Tasks(unit)[task - 1])

LastFe == ue.fes[Len(ue.fes)]

\* the frame size for an instantaneous stack depth d and FPI depth n
Cells(f, fe, d, n) ==
  d + fe.numLocals + f.numIters * kNumIterCells
    + clsRefCountToCells(f.numClsRefSlots) + n * kNumActRecCells

\* C8: maxStackDepth >= currentStackDepth and maxFpiDepth >= |fpiStack| at
\* every point of the emission, and the committed maxStackCells is at least
\* the frame size of every stack depth and FPI depth seen during it.
C8_MaxStackCells ==
  /\ ret.maxStackDepth >= loc.currentStackDepth
  /\ ret.maxFpiDepth >= Len(loc.fpiStack)
  /\ FuncCommitted =>
       \A s \in hist.seen :
          LastFe.maxStackCells >= Cells(LastFunc, LastFe, s.depth, s.fpi)

\* a committed function with iterators that had two open FPI regions and a
\* block entered with a non-empty stack
C8_Witness ==
  /\ FuncCommitted
  /\ LastFunc.numIters > 0
  /\ \E s \in hist.seen : s.fpi >= 2
  /\ \E e \in Entries : e.depth >= 1
  /\ \E s \in hist.seen : LastFe.maxStackCells > Cells(LastFunc, LastFe, s.depth, s.fpi)
  /\ \E s \in hist.seen : s.depth = ret.maxStackDepth /\ s.depth > 0

\* emit_ehent_tree has returned for the function being emitted
EhTableDone == pc = "finish"

EhTab == ue.fes[Len(ue.fes)].ehtab

\* the region of the k-th entry of the table
EhRegionOf(k) == hist.ehEmitted[k]

\* C5: the EH table is in the runtime order: of two consecutive entries the
\* first starts earlier, or starts at the same offset and ends later, or has
\* the same extents and its region is an ancestor of the second's region.
C5_EhTableSorted ==
  EhTableDone =>
    \A k \in 1..(Len(EhTab) - 1) :
       \/ EhTab[k].base < EhTab[k + 1].base
       \/ EhTab[k].base = EhTab[k + 1].base /\ EhTab[k].past > EhTab[k + 1].past
       \/ /\ EhTab[k].base = EhTab[k + 1].base
          /\ EhTab[k].past = EhTab[k + 1].past
          /\ RegionAncestor(hist.ehRegions, EhRegionOf(k), EhRegionOf(k + 1))

\* a table of three entries: a parent and a child of equal extents, and a
\* region that starts later
C5_Witness ==
  /\ EhTableDone
  /\ Len(EhTab) >= 3
  /\ \E k \in 1..(Len(EhTab) - 1) : EhTab[k].base < EhTab[k + 1].base
  /\ \E k \in 1..(Len(EhTab) - 1) :
       EhTab[k].base = EhTab[k + 1].base /\ EhTab[k].past = EhTab[k + 1].past

\* C6: an entry with parentIndex p >= 0 has p the index of an earlier entry,
\* the entry of its region's parent, which encloses it; parentIndex is -1
\* exactly when the region has no parent; the parent lookup never misses.
C6_EhParentIndex ==
  /\ err # "assert(parentIt != end(parentIndexMap))"
  /\ EhTableDone =>
       \A k \in 1..Len(EhTab) :
          /\ (EhTab[k].parentIndex = -1) <=> (hist.ehRegions[EhRegionOf(k)].parent = 0)
          /\ EhTab[k].parentIndex >= -1
          /\ EhTab[k].parentIndex >= 0 =>
               /\ EhTab[k].parentIndex + 1 < k
               /\ EhRegionOf(EhTab[k].parentIndex + 1) = hist.ehRegions[EhRegionOf(k)].parent
               /\ EhTab[EhTab[k].parentIndex + 1].base <= EhTab[k].base
               /\ EhTab[EhTab[k].parentIndex + 1].past >= EhTab[k].past

\* a table with a root, a child whose parent is not the entry before it, and
\* a region that was skipped
C6_Witness ==
  /\ EhTableDone
  /\ \E k \in 1..Len(EhTab) : EhTab[k].parentIndex = -1
  /\ \E k \in 1..Len(EhTab) : EhTab[k].parentIndex >= 0 /\ EhTab[k].parentIndex + 2 < k
  /\ Len(hist.ehEmitted) < Len(hist.ehRegions)

\* emit_unit has returned
UnitDone == pc = "done"

\* the DefCls and DefClsNop opcodes emitted for class id
DefsOf(id) == {hist.defcls[i] : i \in {k \in 1..Len(hist.defcls) : hist.defcls[k].id = id}}

\* the byte at offset off is the opcode of a class definition of class id
IsDefClsAt(off, id) ==
  /\ ue.bc[off + 1] \in {OpByte("DefCls"), OpByte("DefClsNop")}
  /\ ue.bc[off + 2] = id

\* C7: after emit_unit the pre-class entry of a class for which a DefCls or
\* DefClsNop was emitted holds the offset of that opcode's first byte, and
\* the entry of a class without one keeps the offset given at its init.
C7_PreClassOffsets ==
  UnitDone =>
    \A id \in 0..(Len(ue.pces) - 1) :
       /\ \A d \in DefsOf(id) : ue.pces[id + 1].offset = d.off /\ IsDefClsAt(d.off, id)
       /\ DefsOf(id) = {} => ue.pces[id + 1].offset = ue.pces[id + 1].initOffset

\* a unit with a class defined in a function after the pseudomain and a
\* class that is not defined
C7_Witness ==
  /\ UnitDone
  /\ \E id \in 0..(Len(ue.pces) - 1) :
       \E d \in DefsOf(id) : d.off > 0 /\ ue.pces[id + 1].initOffset # d.off
  /\ \E id \in 0..(Len(ue.pces) - 1) :
       DefsOf(id) = {} /\ ue.pces[id + 1].offset # kInvalidOffset

\* a function is being emitted: order_blocks has returned its layout
InEmission == pc \in {"block", "inst", "eh_walk", "finish"}

\* the position of block b in the sequence s
PosIn(s, b) == CHOOSE i \in 1..Len(s) : s[i] = b

SectionOf(b) == Blk(CurFunc, b).section

\* C10: in the layout of order_blocks the main entry is first, every Main
\* block precedes every Fault block, and the blocks of a section keep the
\* order they have in S = (RPO from the main entry) ++ (DV-only blocks).
C10_Layout ==
  InEmission =>
    /\ ret.blockOrder[1] = CurFunc.mainEntry
    /\ Range(ret.blockOrder) = Range(order_input(CurFunc))
    /\ Len(ret.blockOrder) = Len(order_input(CurFunc))
    /\ \A i, j \in 1..Len(ret.blockOrder) :
          i < j =>
            /\ ~(SectionOf(ret.blockOrder[i]) = "Fault"
                   /\ SectionOf(ret.blockOrder[j]) = "Main")
            /\ SectionOf(ret.blockOrder[i]) = SectionOf(ret.blockOrder[j]) =>
                 PosIn(order_input(CurFunc), ret.blockOrder[i])
                   < PosIn(order_input(CurFunc), ret.blockOrder[j])

\* a function whose RPO has a funclet before a main block and that has a
\* block reachable from a DV entry only
C10_Witness ==
  /\ InEmission
  /\ ret.blockOrder # order_input(CurFunc)
  /\ Len(rpoSortFromMain(CurFunc)) < Len(order_input(CurFunc))
  /\ \E i, j \in 1..Len(ret.blockOrder) :
       /\ i < j
       /\ SectionOf(order_input(CurFunc)[i]) = "Fault"
       /\ SectionOf(order_input(CurFunc)[j]) = "Main"

\* the local ids of the functions of unit u
LocalIds(u) ==
  [k \in 1..Len(u.funcs) |-> [i \in 1..Len(u.funcs[k].locals) |-> u.funcs[k].locals[i].id]]

\* emit_unit has returned for the second time
SecondDone == pc = "done" /\ pass = 2

\* C9: emitting the same unit twice in succession gives the same output both
\* times: the layouts, the bytecode with its branch offsets, the EH and FPI
\* tables of every function, and the local ids.
C9_EmitTwice ==
  SecondDone =>
    /\ ue = first.ue
    /\ hist.layouts = first.layouts
    /\ LocalIds(unit) = LocalIds(first.unit)

\* a second emission of a unit whose first block was rewritten and whose
\* function has a branch, an EH entry, an FPI region and a renumbered local
C9_Witness ==
  /\ SecondDone
  /\ Blk(unit.funcs[1], 0).hhbcs = EntryNopBody
  /\ ue.fes[2].ehtab # <<>>
  /\ ue.fes[2].fpitab # <<>>
  /\ unit.funcs[1].locals # <<>>
  /\ unit.funcs[1].locals[3].id = 1
  /\ Len(ue.bc) > 12

\* the blocks of the layout that the walk from the main entry does not reach:
\* they are reachable from a DV entry point only
DVOnlyBlocks == Range(ret.blockOrder) \ Range(rpoSortFromMain(CurFunc))

\* the offset at which block b was entered
EntryOffsets(b) == {e.offset : e \in {x \in Entries : x.block = b}}

\* the funcletOff that the function emitter holds for parameter i
FuncletOff(i) == ue.fes[CurFe].funcletOff[i]

\* C11: a block of the primary body that is reachable from a DV entry point
\* only is laid out after every Main block reachable from the main entry and
\* before every fault-funclet block; once emit_locals_and_params has run, the
\* funcletOff of every parameter with a DV entry block is the offset at which
\* that block was emitted.
C11_DVBlocks ==
  /\ InEmission =>
       \A d \in DVOnlyBlocks : \A x \in Range(ret.blockOrder) :
          SectionOf(d) = "Main" =>
            /\ (x \in Range(rpoSortFromMain(CurFunc)) /\ SectionOf(x) = "Main")
                 => PosIn(ret.blockOrder, x) < PosIn(ret.blockOrder, d)
            /\ SectionOf(x) = "Fault"
                 => PosIn(ret.blockOrder, d) < PosIn(ret.blockOrder, x)
  /\ BytecodeDone =>
       \A i \in 1..Len(CurFunc.params) :
          CurFunc.params[i].dvEntryPoint # NoBlockId =>
            EntryOffsets(CurFunc.params[i].dvEntryPoint) = {FuncletOff(i)}

\* a DV entry block reachable from the DV entry only, emitted after the main
\* body at a positive offset and before a fault funclet that RPO had put
\* before it
C11_Witness ==
  /\ BytecodeDone
  /\ \E i \in 1..Len(CurFunc.params) :
       /\ CurFunc.params[i].dvEntryPoint \in DVOnlyBlocks
       /\ FuncletOff(i) > 0
       /\ \E x \in Range(ret.blockOrder) :
            /\ SectionOf(x) = "Fault"
            /\ PosIn(order_input(CurFunc), x)
                 < PosIn(order_input(CurFunc), CurFunc.params[i].dvEntryPoint)

\* the positions of the layout whose block has been emitted to its end
ExitedPositions == 1..(loc.blockIt - 1)

\* the jumps synthesized after block b
JumpsFrom(b) == {hist.jumps[i] : i \in {k \in 1..Len(hist.jumps) : hist.jumps[k].from = b}}

\* the block at position k has a fallthrough that is not the next block of
\* the layout
FallthroughNotNext(k) ==
  /\ Blk(CurFunc, ret.blockOrder[k]).fallthrough # NoBlockId
  /\ \/ k = Len(ret.blockOrder)
     \/ ret.blockOrder[k + 1] # Blk(CurFunc, ret.blockOrder[k]).fallthrough

\* the offset at which the emission went on after the block at position k:
\* the offset of the next block once that block is entered, the current
\* position before
OffsetAfter(k) ==
  IF k + 1 < loc.blockIt \/ (k + 1 = loc.blockIt /\ pc = "inst")
  THEN ret.blockInfo[ret.blockOrder[k + 1] + 1].offset
  ELSE bcPos(ue)

\* the opcode of the jump synthesized after block b
JmpOpOf(b) == IF Blk(CurFunc, b).fallthroughNS THEN "JmpNS" ELSE "Jmp"

\* C12: after the instructions of block B a jump to its fallthrough F is
\* synthesized exactly when B has a fallthrough and B is the last block of
\* the layout or the next block is not F: then one jump opcode, JmpNS if
\* fallthroughNS and Jmp otherwise, follows B's instructions with F as its
\* target, and otherwise no byte is written between B and the next block.
C12_FallthroughJump ==
  InEmission =>
    \A k \in ExitedPositions :
       LET b == ret.blockOrder[k]
           past == ret.blockInfo[b + 1].past
       IN IF FallthroughNotNext(k)
          THEN /\ Cardinality(JumpsFrom(b)) = 1
               /\ \A j \in JumpsFrom(b) :
                     /\ j.off = past
                     /\ ue.bc[j.off + 1] = OpByte(JmpOpOf(b))
                     /\ \E br \in BranchSites :
                           /\ br.instrOff = j.off
                           /\ br.jmpImmedOff = j.off + 1
                           /\ br.target = Blk(CurFunc, b).fallthrough
               /\ OffsetAfter(k) = past + 5
          ELSE /\ JumpsFrom(b) = {}
               /\ OffsetAfter(k) = past

\* a layout with a synthesized JmpNS, a synthesized Jmp after the last block
\* and a fallthrough into the next block of the layout
C12_Witness ==
  /\ BytecodeDone
  /\ \E j \in Range(hist.jumps) : ue.bc[j.off + 1] = OpByte("JmpNS")
  /\ \E j \in Range(hist.jumps) :
       ue.bc[j.off + 1] = OpByte("Jmp") /\ j.from = Last(ret.blockOrder)
  /\ \E k \in 1..(Len(ret.blockOrder) - 1) :
       /\ Blk(CurFunc, ret.blockOrder[k]).fallthrough = ret.blockOrder[k + 1]
       /\ JumpsFrom(ret.blockOrder[k]) = {}

\* the function being emitted as it was given to emit_unit
GivenFunc == GetFunc(first.unit, CurTask)

\* the offset at which the function being emitted starts
FuncBase == ue.fes[CurFe].base

\* the emitter is about to emit a plain Nop
AtNop ==
  /\ pc = "inst"
  /\ loc.instIt <= Len(CurBlock.hhbcs)
  /\ CurBlock.hhbcs[loc.instIt].op = "Nop"

\* the first block of the layout was given as exactly one plain Nop
FrontWasSingleNop == is_single_nop(Blk(GivenFunc, ret.blockOrder[1]))

\* C13: if the first block of the layout is exactly one plain Nop, the first
\* opcode byte of the function is EntryNop; any other plain Nop emits no
\* byte, and no instruction of the emitted stream has the opcode Nop.
C13_EntryNop ==
  /\ [](BytecodeDone =>
          /\ FrontWasSingleNop =>
               /\ bcPos(ue) > FuncBase
               /\ ue.bc[FuncBase + 1] = OpByte("EntryNop")
               /\ FuncBase \in hist.starts
          /\ \A o \in hist.starts : ue.bc[o + 1] # OpByte("Nop"))
  /\ [][AtNop => ue'.bc = ue.bc]_vars

\* a function whose first block was the single Nop, with a later block of
\* one Nop and a Nop among other instructions, neither of which left a byte
C13_Witness ==
  /\ BytecodeDone
  /\ FrontWasSingleNop
  /\ ue.bc[FuncBase + 1] = OpByte("EntryNop")
  /\ \E b \in Range(ret.blockOrder) :
       /\ b # ret.blockOrder[1]
       /\ is_single_nop(Blk(CurFunc, b))
       /\ ret.blockInfo[b + 1].offset = ret.blockInfo[b + 1].past
  /\ \E b \in Range(ret.blockOrder) :
       /\ Len(Blk(CurFunc, b).hhbcs) > 2
       /\ \E k \in 1..Len(Blk(CurFunc, b).hhbcs) : Blk(CurFunc, b).hhbcs[k].op = "Nop"

\* the encoded length of an immediate and of an instruction (a plain Nop is
\* not encoded; the IVA values used are below 128)
ImmLen(inst, n) ==
  LET kind == Imms(inst.op)[n] IN
  CASE kind = "BA"   -> 4
    [] kind = "IVA"  -> 1
    [] kind = "I64A" -> 8
    [] kind = "OA"   -> 1
    [] kind = "SA"   -> 4
    [] kind = "LA"   -> 1
    [] kind = "BLA"  -> 4 + 4 * Len(inst.targets)
    [] kind = "SLA"  -> 4 + 8 * Len(inst.targets)

RECURSIVE ImmsLen(_, _)
ImmsLen(inst, n) == IF n = 0 THEN 0 ELSE ImmLen(inst, n) + ImmsLen(inst, n - 1)

InstLen(inst) == IF inst.op = "Nop" THEN 0 ELSE 1 + ImmsLen(inst, Len(Imms(inst.op)))

\* the offset of the i-th instruction of block b, from the block's offset
RECURSIVE LenBefore(_, _)
LenBefore(hhbcs, i) ==
  IF i <= 1 THEN 0 ELSE InstLen(hhbcs[i - 1]) + LenBefore(hhbcs, i - 1)

InstOffset(b, i) == ret.blockInfo[b + 1].offset + LenBefore(Blk(CurFunc, b).hhbcs, i)

\* the stack depth before the i-th instruction of block b
RECURSIVE NetBefore(_, _)
NetBefore(hhbcs, i) ==
  IF i <= 1 THEN 0
  ELSE NumPush(hhbcs[i - 1]) - NumPop(hhbcs[i - 1]) + NetBefore(hhbcs, i - 1)

DepthBefore(b, i) ==
  (CHOOSE e \in Entries : e.block = b).depth + NetBefore(Blk(CurFunc, b).hhbcs, i)

isFpiOp(inst) == isFPush(inst.op) \/ isFCallStar(inst.op)

\* the last FPush of block b is at i and no call follows it in b
LastFPushAt(b, i) ==
  /\ isFPush(Blk(CurFunc, b).hhbcs[i].op)
  /\ \A j \in (i + 1)..Len(Blk(CurFunc, b).hhbcs) : ~isFpiOp(Blk(CurFunc, b).hhbcs[j])

\* the first call of block t is at c and no FPush precedes it in t
FirstFCallAt(t, c) ==
  /\ isFCallStar(Blk(CurFunc, t).hhbcs[c].op)
  /\ \A j \in 1..(c - 1) : ~isFpiOp(Blk(CurFunc, t).hhbcs[j])

\* the blocks that have t as a successor
Preds(t) ==
  {x \in 0..(Len(CurFunc.blocks) - 1) : t \in Range(Successors(Blk(CurFunc, x)))}

\* block b opens a region at i and ends in a terminal jump to t, whose call
\* at c is the matching call: t is reached through that jump only
FpiAcrossJump(b, i, t, c) ==
  /\ Last(Blk(CurFunc, b).hhbcs).op \in {"Jmp", "JmpNS"}
  /\ Last(Blk(CurFunc, b).hhbcs).targets = <<t>>
  /\ t # CurFunc.mainEntry
  /\ Preds(t) = {b}
  /\ LastFPushAt(b, i)
  /\ FirstFCallAt(t, c)

RegionsFrom(off) == {j \in 1..Len(ret.fpiRegions) : ret.fpiRegions[j].fpushOff = off}

\* the FPI depths seen during the emission of the function
SeenFpi == {s.fpi : s \in hist.seen}

\* the emitter is about to emit a terminal instruction
AtTerminal ==
  /\ pc = "inst"
  /\ loc.instIt <= Len(CurBlock.hhbcs)
  /\ isTF(CurBlock.hhbcs[loc.instIt].op)

PathHas(b, n) == n \in Range(exn_path(CurFunc, Blk(CurFunc, b).exnNode))

\* block b leaves node n through its synthesized jump: regionsToPop reaches n
LeavesNode(b, n) ==
  /\ PathHas(b, n)
  /\ ret.blockInfo[b + 1].regionsToPop
       > Node(CurFunc, Blk(CurFunc, b).exnNode).depth - Node(CurFunc, n).depth

\* positions i..j of the layout are a maximal run of blocks with n on their
\* path, none of which leaves n through a synthesized jump
EhRun(n, i, j) ==
  /\ i <= j
  /\ \A k \in i..j : PathHas(ret.blockOrder[k], n) /\ ~LeavesNode(ret.blockOrder[k], n)
  /\ i = 1 \/ ~PathHas(ret.blockOrder[i - 1], n)
  /\ j = Len(ret.blockOrder) \/ ~PathHas(ret.blockOrder[j + 1], n)

RunBase(i) == ret.blockInfo[ret.blockOrder[i] + 1].offset

RunPast(j) ==
  IF j < Len(ret.blockOrder) THEN ret.blockInfo[ret.blockOrder[j + 1] + 1].offset
  ELSE ret.blockInfo[ret.blockOrder[j] + 1].past

\* the entries of the table made for node n that start at base
EhEntriesOf(n, base) ==
  {k \in 1..Len(EhTab) :
     hist.ehRegions[EhRegionOf(k)].node = n /\ EhTab[k].base = base}

\* node n has exactly one entry for the run i..j, and it covers the run
OneEntryForRun(n, i, j) ==
  /\ Cardinality(EhEntriesOf(n, RunBase(i))) = 1
  /\ \A k \in EhEntriesOf(n, RunBase(i)) :
        /\ EhTab[k].past = RunPast(j)
        /\ EhTab[k].handler = ret.blockInfo[Entry(CurFunc, n) + 1].offset
        /\ EhTab[k].type = Node(CurFunc, n).kind
        /\ Node(CurFunc, n).parent = 0 => EhTab[k].parentIndex = -1

LayoutPositions == 1..Len(ret.blockOrder)

ExnNodeIds == 1..Len(CurFunc.exnNodes)

\* C15 as stated: every maximal run of blocks under node N that no block
\* leaves through a synthesized jump has exactly one EH entry for N, from the
\* offset of the run's first block to the offset of the block after the run
\* (the last block's past at the end of the function), with N's handler and
\* type, and parentIndex -1 if N has no parent.
C15_Original ==
  EhTableDone =>
    \A n \in ExnNodeIds : \A i, j \in LayoutPositions :
       EhRun(n, i, j) => OneEntryForRun(n, i, j)

\* C15, amended: the run has that entry if it occupies at least one byte; a
\* run in which no byte was emitted (its base equals its past) has no entry,
\* and no entry of the table has an empty extent.
C15_EhEntryPerRun ==
  EhTableDone =>
    /\ \A n \in ExnNodeIds : \A i, j \in LayoutPositions :
          (EhRun(n, i, j) /\ RunBase(i) < RunPast(j)) => OneEntryForRun(n, i, j)
    /\ \A n \in ExnNodeIds : \A i, j \in LayoutPositions :
          (EhRun(n, i, j) /\ RunBase(i) = RunPast(j)) =>
             \A k \in EhEntriesOf(n, RunBase(i)) : EhTab[k].past # RunPast(j)
    /\ \A k \in 1..Len(EhTab) : EhTab[k].base < EhTab[k].past

\* a table with the entry of a run of two blocks under a root node that ends
\* before the end of the function, the entry of a nested node, and a run
\* without bytes that has no entry
C15_Witness ==
  /\ EhTableDone
  /\ \E n \in ExnNodeIds : \E i, j \in LayoutPositions :
       /\ EhRun(n, i, j) /\ i < j /\ j < Len(ret.blockOrder)
       /\ RunBase(i) < RunPast(j)
       /\ Node(CurFunc, n).parent = 0
       /\ OneEntryForRun(n, i, j)
  /\ \E n \in ExnNodeIds : \E i, j \in LayoutPositions :
       /\ EhRun(n, i, j) /\ RunBase(i) < RunPast(j)
       /\ Node(CurFunc, n).parent # 0
       /\ OneEntryForRun(n, i, j)
  /\ \E n \in ExnNodeIds : \E i, j \in LayoutPositions :
       /\ EhRun(n, i, j) /\ RunBase(i) = RunPast(j)
       /\ EhEntriesOf(n, RunBase(i)) = {}

\* the fixups recorded for block b
ForwardJumps(b) == Range(ret.blockInfo[b + 1].forwardJumps)

\* fixup x of block b is resolved: its immediate is the relative offset of b
Resolved(b, x) ==
  /\ ret.blockInfo[b + 1].offset # kInvalidOffset
  /\ readInt32(ue.bc, x.jmpImmedOff) = ret.blockInfo[b + 1].offset - x.instrOff

\* every branch written with a placeholder has a fixup in its target's list
PlaceholdersRecorded ==
  \A br \in BranchSites :
     TargetOffset(br) > br.instrOff =>
       [instrOff |-> br.instrOff, jmpImmedOff |-> br.jmpImmedOff]
         \in ForwardJumps(br.target)

Unpatched(br) ==
  /\ br.target \notin Range(ret.blockOrder)
  /\ Immediate(br) = 0

\* C17: a function with a branch written as placeholder 0 towards a block
\* that is never emitted does not get to the end of emit_bytecode: the
\* emission aborts instead of returning a stream with the placeholder.
C17_UnresolvedJumpAborts ==
  BytecodeDone => \A br \in BranchSites : ~Unpatched(br)

\* the emitter is about to emit a DefCls or DefClsNop of a class whose entry
\* of defClsMap is set
AtSecondDef ==
  /\ pc = "inst"
  /\ loc.instIt <= Len(CurBlock.hhbcs)
  /\ CurBlock.hhbcs[loc.instIt].op \in {"DefCls", "DefClsNop"}
  /\ euState.defClsMap[CurBlock.hhbcs[loc.instIt].args[1] + 1] # kInvalidOffset

DefClsAssertion ==
  /\ pc = "abort"
  /\ err = "always_assert(euState.defClsMap[id] == kInvalidOffset)"

\* C18: over the whole unit a class id is recorded in defClsMap at most once:
\* at most one DefCls or DefClsNop opcode is emitted for it, a set entry of
\* defClsMap is never written again, and a second DefCls or DefClsNop of the
\* id aborts with the byte stream and defClsMap as they were.
C18_DefClsOnce ==
  /\ [](\A id \in 0..(Len(euState.defClsMap) - 1) :
          /\ Cardinality(DefsOf(id)) <= 1
          /\ \A d \in DefsOf(id) : euState.defClsMap[id + 1] = d.off)
  /\ [][\A id \in 1..Len(euState.defClsMap) :
          euState.defClsMap[id] # kInvalidOffset =>
            euState'.defClsMap[id] = euState.defClsMap[id]]_vars
  /\ [][AtSecondDef =>
          (pc' = "abort" /\ ue' = ue /\ euState' = euState
             /\ err' = "always_assert(euState.defClsMap[id] == kInvalidOffset)")]_vars

\* a function aborts on a class that the pseudomain has defined: nothing of
\* the function is in the stream and the entry holds the pseudomain's offset
C18_Witness ==
  /\ DefClsAssertion
  /\ CurTask.kind = "func"
  /\ bcPos(ue) = FuncBase
  /\ \E id \in 0..(Len(euState.defClsMap) - 1) :
       /\ DefsOf(id) # {}
       /\ euState.defClsMap[id + 1] < FuncBase
       /\ CurBlock.hhbcs[loc.instIt - 1].op \in {"DefCls", "DefClsNop"}
       /\ CurBlock.hhbcs[loc.instIt - 1].args[1] = id

\* the emitter is about to emit a return-family instruction
AtRet ==
  /\ pc = "inst"
  /\ loc.instIt <= Len(CurBlock.hhbcs)
  /\ isRet(CurBlock.hhbcs[loc.instIt].op)

RetAssertion == pc = "abort" /\ err = "assert(currentStackDepth == 1)"

\* the return opcodes in the stream of the function being emitted
RetStarts == {o \in hist.starts : ue.bc[o + 1] = OpByte("RetC")}

\* C19: a return-family opcode is emitted only at a tracked stack depth of
\* exactly 1, the depth before the opcode's own pop: at depth 1 the opcode is
\* written, at any other depth the assertion fails and nothing is written.
C19_RetDepth ==
  [][AtRet =>
       IF loc.currentStackDepth = 1
       THEN /\ pc' = "inst"
            /\ ue'.bc = Append(ue.bc, OpByte(CurBlock.hhbcs[loc.instIt].op))
            /\ RetStarts' = RetStarts \cup {bcPos(ue)}
       ELSE /\ RetAssertion'
            /\ ue'.bc = ue.bc
            /\ RetStarts' = RetStarts]_vars

\* a function that has emitted a return at depth 1 and aborts on a return in
\* another block that is entered with an empty stack
C19_Witness ==
  /\ RetAssertion
  /\ RetStarts # {}
  /\ loc.currentStackDepth = 0
  /\ loc.blockIt > 1

\* the emitter is about to emit an instruction that pops more than the stack
\* holds (a return is stopped by its own assertion first)
AtUnderflow ==
  /\ pc = "inst"
  /\ loc.instIt <= Len(CurBlock.hhbcs)
  /\ CurBlock.hhbcs[loc.instIt].op # "Nop"
  /\ ~isRet(CurBlock.hhbcs[loc.instIt].op)
  /\ NumPop(CurBlock.hhbcs[loc.instIt]) > loc.currentStackDepth

UnderflowAssertion == pc = "abort" /\ err = "assert(currentStackDepth >= 0)"

\* the emitter is about to enter a block
AtBlockEntry == pc = "block" /\ loc.blockIt <= Len(ret.blockOrder)

\* the depth a block is entered with: its expected depth, 0 if it has none
EntryDepth(b) ==
  IF ret.blockInfo[b + 1].expectedStackDepth = NoDepth THEN 0
  ELSE ret.blockInfo[b + 1].expectedStackDepth

\* C20: while a function is emitted without an abort, currentStackDepth is
\* never negative: a pop below zero fails its assertion, a block entry sets
\* the depth to the block's expected depth (0 if it has none), and a
\* terminal opcode sets it to 0.
C20_DepthNonNegative ==
  /\ [](InEmission => loc.currentStackDepth >= 0)
  /\ [][AtUnderflow => UnderflowAssertion']_vars
  /\ [][AtBlockEntry => loc'.currentStackDepth = EntryDepth(CurBlockId)]_vars
  /\ [][(AtTerminal /\ pc' # "abort") => loc'.currentStackDepth = 0]_vars

\* a pop on an empty stack aborts, in a block that was entered with the two
\* values a terminal jump had left on the stack
C20_Witness ==
  /\ UnderflowAssertion
  /\ loc.currentStackDepth < 0
  /\ \E e \in Entries : e.block = CurBlockId /\ e.depth = 2
  /\ \E br \in BranchSites :
       /\ br.target = CurBlockId
       /\ ue.bc[br.instrOff + 1] = OpByte("Jmp")
       /\ br.instrOff \notin {j.off : j \in Range(hist.jumps)}

\* the ids emit_init_func assigns: a killed local has INT_MAX, a live local
\* the number of live locals declared before it
Compacted(f) ==
  \A i \in 1..Len(f.locals) :
     f.locals[i].id =
       IF f.locals[i].killed THEN INT_MAX
       ELSE Cardinality({j \in 1..(i - 1) : ~f.locals[j].killed})

\* the bytecode of the current function is being emitted
InBytecode == pc \in {"block", "inst"}

\* the instruction emitted last in the current block read a killed local
ReadKilled ==
  /\ pc = "inst"
  /\ loc.instIt > 1
  /\ CurBlock.hhbcs[loc.instIt - 1].op = "CGetL"
  /\ CurFunc.locals[CurBlock.hhbcs[loc.instIt - 1].args[1] + 1].killed

\* C21: while the bytecode of a function is emitted (the pseudomain, a
\* method, a top-level function) its local ids are the compacted ones: a
\* live local has the number of live locals before it (so id <= index), a
\* killed local has INT_MAX; and the emission does not continue past an
\* instruction that reads a killed local.
C21_LocalIdsCompacted ==
  /\ InBytecode => Compacted(CurFunc)
  /\ ~ReadKilled

\* the functions of unit u: the pseudomain, the methods, the functions
FuncsOfUnit(u) ==
  <<u.pseudomain>>
  \o Flatten([c \in 1..Len(u.classes) |-> u.classes[c].methods])
  \o u.funcs

\* what the IR of u holds: the instruction list of every block and the
\* fields of every local
IRContents(u) ==
  [k \in 1..Len(FuncsOfUnit(u)) |->
     [hhbcs |-> [b \in 1..Len(FuncsOfUnit(u)[k].blocks) |->
                   FuncsOfUnit(u)[k].blocks[b].hhbcs],
      locals |-> FuncsOfUnit(u)[k].locals]]

\* C22: no step of emit_unit changes the IR unit: the instruction list of
\* every block and the fields of every local stay what they were before the
\* emission.
C22_InputImmutable == [][IRContents(unit)' = IRContents(unit)]_vars

\* the offset at which the instructions of block b end
InstsEnd(b) == InstOffset(b, Len(Blk(CurFunc, b).hhbcs) + 1)

\* the original statement of C24: B.past is the offset at which the emission
\* goes on after B, the synthesized jump included
C24_Original ==
  InEmission =>
    \A k \in ExitedPositions : ret.blockInfo[ret.blockOrder[k] + 1].past = OffsetAfter(k)

\* C24: for every emitted block B, B.past is recorded before the synthesized
\* fall-through jump: it is the offset at which B's own instructions end; a
\* synthesized Jmp / JmpNS starts at B.past, and then the next block of the
\* layout (or the end of the function's bytecode) is at B.past + 5, the
\* length of the jump; without a synthesized jump it is at B.past.
C24_PastBeforeJump ==
  InEmission =>
    \A k \in ExitedPositions :
       LET b == ret.blockOrder[k]
           past == ret.blockInfo[b + 1].past
       IN /\ past = InstsEnd(b)
          /\ \A j \in JumpsFrom(b) : j.off = past
          /\ OffsetAfter(k) = past + (IF JumpsFrom(b) # {} THEN 1 + ImmLen(I("Jmp"), 1) ELSE 0)

\* a block that is followed by a synthesized jump and then by another block,
\* a last block followed by a synthesized jump, and a block followed by the
\* next block directly
C24_Witness ==
  /\ BytecodeDone
  /\ \E k \in 1..(Len(ret.blockOrder) - 1) :
       /\ JumpsFrom(ret.blockOrder[k]) # {}
       /\ ret.blockInfo[ret.blockOrder[k + 1] + 1].offset
            = ret.blockInfo[ret.blockOrder[k] + 1].past + 5
       /\ ret.blockInfo[ret.blockOrder[k] + 1].past
            > ret.blockInfo[ret.blockOrder[k] + 1].offset
  /\ JumpsFrom(Last(ret.blockOrder)) # {}
  /\ bcPos(ue) = ret.blockInfo[Last(ret.blockOrder) + 1].past + 5
  /\ \E k \in 1..(Len(ret.blockOrder) - 1) :
       /\ JumpsFrom(ret.blockOrder[k]) = {}
       /\ ret.blockInfo[ret.blockOrder[k + 1] + 1].offset
            = ret.blockInfo[ret.blockOrder[k] + 1].past

\* the emitter is about to encode an instruction of the current block
AtInst == pc = "inst" /\ loc.instIt <= Len(CurBlock.hhbcs)

\* the expectations recorded by the step
NewExpects == {hist'.expects[k] : k \in (Len(hist.expects) + 1)..Len(hist'.expects)}

\* the stack depth after the pops and the pushes of the instruction at hand
DepthAfterInst ==
  loc.currentStackDepth - NumPop(CurBlock.hhbcs[loc.instIt])
    + NumPush(CurBlock.hhbcs[loc.instIt])

\* the original statement of C25: a branch records for its target the depth
\* before the instruction's own pops and pushes
C25_Original ==
  [][AtInst => \A e \in NewExpects : e.depth = loc.currentStackDepth]_vars

\* C25: within the encoding of one instruction the pops and the pushes are
\* applied after the opcode byte and before the immediates: the expected
\* stack depth that every branch target of the instruction is given is the
\* depth after the instruction's own pops and pushes, and an instruction
\* whose pops underflow the stack aborts with its opcode byte written and
\* none of its immediates.
C25_PopsBeforeImmediates ==
  [][AtInst =>
       /\ \A e \in NewExpects : e.depth = DepthAfterInst
       /\ pc' = "inst" =>
            Cardinality(NewExpects) = Cardinality(Range(CurBlock.hhbcs[loc.instIt].targets))
       /\ err' = "assert(currentStackDepth >= 0)" =>
            /\ DepthAfterInst - NumPush(CurBlock.hhbcs[loc.instIt]) < 0
            /\ bcPos(ue') = bcPos(ue) + 1
            /\ NewExpects = {}]_vars

\* a conditional branch emitted with two values on the stack: its target
\* expects one
C25_Witness ==
  /\ pc = "inst"
  /\ loc.instIt > 1
  /\ CurBlock.hhbcs[loc.instIt - 1].op = "JmpZ"
  /\ DepthBefore(CurBlockId, loc.instIt - 1) = 2
  /\ hist.expects # <<>>
  /\ Last(hist.expects).target = CurBlock.hhbcs[loc.instIt - 1].targets[1]
  /\ Last(hist.expects).depth = 1
  /\ loc.currentStackDepth = 1

\* the depth of node n, 0 for the null node
DepthOrZero(f, n) == IF n = 0 THEN 0 ELSE Node(f, n).depth

\* what C26 gives for the block b: the regions a synthesized jump leaves
RegionsLeft(b) ==
  IF JumpsFrom(b) # {} /\ Blk(CurFunc, b).exnNode # 0
  THEN Node(CurFunc, Blk(CurFunc, b).exnNode).depth
         - DepthOrZero(CurFunc,
                       commonParent(CurFunc, Blk(CurFunc, b).exnNode,
                                    Blk(CurFunc, Blk(CurFunc, b).fallthrough).exnNode))
  ELSE 0

\* the walk of emit_ehent_tree is about to process a block, and does so
\* without a failed assertion
AtEhWalk == pc = "eh_walk" /\ ehs.walk <= Len(ret.blockOrder) /\ pc' = "eh_walk"

WalkBlock == ret.blockOrder[ehs.walk]

WalkPath == exn_path(CurFunc, Blk(CurFunc, WalkBlock).exnNode)

\* the last region created for node n
LastRegion(regions, n) ==
  regions[CHOOSE i \in 1..Len(regions) :
            regions[i].node = n /\ \A j \in (i + 1)..Len(regions) : regions[j].node # n]

\* C26: when a fall-through jump is synthesized for block B with exception
\* node N toward F, regionsToPop = depth(N) - depth(commonParent(N,
\* F.exnNode)), a null common parent having depth 0; it is 0 when B has no
\* exception node and when no jump is synthesized; it is >= 0 and at most the
\* number of active nodes once B's path is pushed in emit_ehent_tree; and the
\* walk closes exactly that many innermost regions of B's path at B.past, the
\* offset at which the synthesized jump starts, and leaves the others active.
C26_RegionsToPop ==
  /\ [](InEmission =>
          \A k \in ExitedPositions :
             /\ ret.blockInfo[ret.blockOrder[k] + 1].regionsToPop
                  = RegionsLeft(ret.blockOrder[k])
             /\ RegionsLeft(ret.blockOrder[k]) >= 0
             /\ RegionsLeft(ret.blockOrder[k])
                  <= Len(exn_path(CurFunc, Blk(CurFunc, ret.blockOrder[k]).exnNode)))
  /\ [][(AtEhWalk /\ Blk(CurFunc, WalkBlock).exnNode # 0) =>
          /\ ehs'.activeList
               = SubSeq(WalkPath, 1, Len(WalkPath) - RegionsLeft(WalkBlock))
          /\ \A i \in (Len(WalkPath) - RegionsLeft(WalkBlock) + 1)..Len(WalkPath) :
                /\ LastRegion(ehs'.regions, WalkPath[i]).past
                     = ret.blockInfo[WalkBlock + 1].past
                /\ \A j \in JumpsFrom(WalkBlock) :
                     LastRegion(ehs'.regions, WalkPath[i]).past = j.off
          /\ \A i \in 1..(Len(WalkPath) - RegionsLeft(WalkBlock)) :
                LastRegion(ehs'.regions, WalkPath[i]).past = kInvalidOffset]_vars

\* the walk has passed a block of the inner node whose synthesized jump goes
\* to a block of the unrelated node: one region of two was closed at the
\* block's past, the region of the outer node after it
C26_Witness ==
  /\ pc = "eh_walk"
  /\ ehs.walk > 1
  /\ \E k \in 1..(ehs.walk - 1) :
       LET b == ret.blockOrder[k] IN
       /\ JumpsFrom(b) # {}
       /\ Len(exn_path(CurFunc, Blk(CurFunc, b).exnNode)) = 2
       /\ RegionsLeft(b) = 1
       /\ ret.blockInfo[b + 1].regionsToPop = 1
       /\ ret.blockInfo[b + 1].past > ret.blockInfo[b + 1].offset
       /\ \E r \in Range(ehs.regions) :
            /\ r.node = Blk(CurFunc, b).exnNode
            /\ r.past = ret.blockInfo[b + 1].past
       /\ \E r \in Range(ehs.regions) :
            /\ r.node = Node(CurFunc, Blk(CurFunc, b).exnNode).parent
            /\ r.past > ret.blockInfo[b + 1].past
            /\ r.past # kInvalidOffset

\* the function whose tree commonParent was called on
TreeOf == unit.funcs[1]

\* the ancestors of node n and n itself
AncOrSelf(f, n) == Range(exn_path(f, n))

HandleEq(f, x, y) == handleEquivalent(f, x, y) = "true"

\* x is handle-equivalent to P or a descendant of P
UnderSame(f, x, P) == HandleEq(f, x, P) \/ (P \in AncOrSelf(f, x) /\ x # P)

\* x is handle-equivalent to P or a descendant of a node handle-equivalent
\* to P
Under(f, x, P) == \E y \in AncOrSelf(f, x) : HandleEq(f, y, P)

\* the deepest node of S, a set of nodes of one path; null when S is empty
Deepest(f, S) ==
  IF S = {} THEN 0
  ELSE CHOOSE P \in S : \A Q \in S : Node(f, Q).depth <= Node(f, P).depth

WalkedRegions == IF pc \in {"finish", "abort"} THEN ehs.regions ELSE <<>>

\* C28: two distinct regions created by the walk of emit_ehent_tree that
\* have the same start and the same past (empty regions included) are
\* related in the region-parent chain, one being an ancestor of the other;
\* and the debug assertion of the sort comparator does not fire.
C28_SameExtentRelated ==
  /\ err # "assert(p == b)"
  /\ \A x, y \in 1..Len(WalkedRegions) :
        (x # y /\ SameExtent(WalkedRegions, x, y))
          => (RegionAncestor(WalkedRegions, x, y) \/ RegionAncestor(WalkedRegions, y, x))

MaxFpi == 2

FpiStep(d, inst) ==
  IF d < 0 THEN -1
  ELSE IF isFPush(inst.op) THEN d + 1
  ELSE IF isFCallStar(inst.op) THEN d - 1
  ELSE d

\* the number of open FPI regions after the first k instructions of a block
\* entered with d of them open; -1 when a call finds none to close
RECURSIVE FpiAfter(_, _, _)
FpiAfter(hhbcs, d, k) ==
  IF k = 0 THEN d ELSE FpiStep(FpiAfter(hhbcs, d, k - 1), hhbcs[k])

EntryBlocks(f) ==
  {f.mainEntry}
    \cup {f.exnNodes[n].entry : n \in 1..Len(f.exnNodes)}
    \cup {f.params[i].dvEntryPoint : i \in 1..Len(f.params)}

\* D gives every block its FPI depth at entry: entry blocks and handlers
\* start with no open region, every call closes an open region, every branch
\* and fallthrough reaches its target with the target's depth, and a return
\* leaves no region open
FpiDepths(f, D) ==
  /\ \A e \in EntryBlocks(f) \cap DOMAIN D : D[e] = 0
  /\ \A b \in DOMAIN D :
        /\ \A k \in 1..Len(Blk(f, b).hhbcs) :
              /\ FpiAfter(Blk(f, b).hhbcs, D[b], k) \in 0..MaxFpi
              /\ \A t \in Range(Blk(f, b).hhbcs[k].targets) :
                    D[t] = FpiAfter(Blk(f, b).hhbcs, D[b], k)
              /\ isRet(Blk(f, b).hhbcs[k].op)
                    => FpiAfter(Blk(f, b).hhbcs, D[b], k - 1) = 0
        /\ Blk(f, b).fallthrough # NoBlockId
              => D[Blk(f, b).fallthrough]
                   = FpiAfter(Blk(f, b).hhbcs, D[b], Len(Blk(f, b).hhbcs))

\* invariant 3 of the IR: every call closes the nearest open FPI region, and
\* on every path an FPush is followed by one matching call
WellFormedFpi(f) ==
  \E D \in [0..(Len(f.blocks) - 1) -> 0..MaxFpi] : FpiDepths(f, D)

\* the loop of emit_bytecode has just entered a block
BlockEntered ==
  /\ pc = "inst"
  /\ loc.instIt = 1
  /\ err = ""

\* C29: for a function that satisfies the IR invariants and the layout of
\* order_blocks, the assertion on the expected FPI depth at block entry does
\* not fire; and once the regions ended by terminal instructions are closed,
\* the FPI stack has as many entries as the block's expected FPI depth.
C29_FpiDepthAtEntry ==
  /\ err = "assert(*info.expectedFPIDepth <= fpiStack.size())"
        => ~WellFormedFpi(CurFunc)
  /\ BlockEntered
        => Len(loc.fpiStack) = ret.blockInfo[CurBlockId + 1].expectedFPIDepth

\* the entry blocks of the fault funclets of f
FaultEntries(f) ==
  {f.exnNodes[n].entry :
     n \in {m \in 1..Len(f.exnNodes) :
              /\ f.exnNodes[m].kind = "Fault"
              /\ Blk(f, f.exnNodes[m].entry).section = "Fault"}}

\* the blocks a block leaves to by a branch or by falling through
NormalSuccessors(b) ==
  Range(IF b.hhbcs = <<>> THEN <<>> ELSE Last(b.hhbcs).targets)
    \cup (IF b.fallthrough # NoBlockId THEN {b.fallthrough} ELSE {})

\* the blocks reached from the blocks of S without taking a factored exit
RECURSIVE FuncletClosure(_, _)
FuncletClosure(f, S) ==
  IF UNION {NormalSuccessors(Blk(f, b)) : b \in S} \subseteq S THEN S
  ELSE FuncletClosure(f, S \cup UNION {NormalSuccessors(Blk(f, b)) : b \in S})

\* the fault funclet that starts at block e
Funclet(f, e) == FuncletClosure(f, {e})

\* C30: in the layout returned by order_blocks the blocks of each fault
\* funclet are contiguous and the entry block of the funclet is the first
\* of them.
C30_FuncletsContiguous ==
  InEmission =>
    \A e \in FaultEntries(CurFunc) \cap Range(ret.blockOrder) :
       \A b \in Funclet(CurFunc, e) :
          /\ b \in Range(ret.blockOrder)
          /\ PosIn(ret.blockOrder, b) >= PosIn(ret.blockOrder, e)
          /\ PosIn(ret.blockOrder, b)
               < PosIn(ret.blockOrder, e) + Cardinality(Funclet(CurFunc, e))

\* the first of the two interleaved calls, running or suspended
FirstCall == IF others.running = 1 THEN Invocation ELSE others.saved[1]

SecondCall == IF others.running = 2 THEN Invocation ELSE others.saved[1]

EntryPoints(f) ==
  {f.mainEntry}
    \cup {f.params[i].dvEntryPoint :
            i \in {k \in 1..Len(f.params) : f.params[k].dvEntryPoint # NoBlockId}}

\* the blocks reached from the blocks of S over any number of successor edges
RECURSIVE ReachClosure(_, _)
ReachClosure(f, S) ==
  IF UNION {Range(Successors(Blk(f, b))) : b \in S} \subseteq S THEN S
  ELSE ReachClosure(f, S \cup UNION {Range(Successors(Blk(f, b))) : b \in S})

Reachable(f) == ReachClosure(f, EntryPoints(f))

\* the positions of the layout that hold block b
PositionsOf(b) == {i \in 1..Len(ret.blockOrder) : ret.blockOrder[i] = b}

\* the entries of the block loop into block b
EntriesInto(b) == {i \in 1..Len(hist.entries) : hist.entries[i].block = b}

\* the block loop of emit_bytecode is running, before and after the step
InBlockLoop == pc \in {"block", "inst"} /\ pc' \in {"block", "inst", "eh_walk"}

\* C31: the layout of order_blocks holds every block that is reachable from
\* the main entry or from a DV entry point exactly once and no other block;
\* so the block loop enters every block of the layout once: the offset of a
\* block, once assigned, is not assigned again, and the immediates of its
\* fixups, patched when the block is entered, are not written again.
C31_LayoutOnce ==
  /\ [](InEmission =>
          /\ Range(ret.blockOrder) = Reachable(CurFunc)
          /\ \A b \in Reachable(CurFunc) : Cardinality(PositionsOf(b)) = 1
          /\ \A b \in 0..(Len(CurFunc.blocks) - 1) :
                /\ Cardinality(EntriesInto(b)) <= 1
                /\ (BytecodeDone /\ b \in Reachable(CurFunc))
                      => Cardinality(EntriesInto(b)) = 1)
  /\ [][InBlockLoop =>
          \A b \in 0..(Len(ret.blockInfo) - 1) :
             ret.blockInfo[b + 1].offset # kInvalidOffset =>
               /\ ret'.blockInfo[b + 1].offset = ret.blockInfo[b + 1].offset
               /\ \A x \in ForwardJumps(b) :
                     readInt32(ue'.bc, x.jmpImmedOff) = readInt32(ue.bc, x.jmpImmedOff)]_vars

\* emit_bytecode has returned for a function with a block that only a DV
\* entry point reaches, whose walk runs into blocks the walk from the main
\* entry has visited, and with a block whose fixup was patched
C31_Witness ==
  /\ BytecodeDone
  /\ DVOnlyBlocks # {}
  /\ \E d \in DVOnlyBlocks :
        Range(Successors(Blk(CurFunc, d))) \cap Range(rpoSortFromMain(CurFunc)) # {}
  /\ Len(hist.entries) = Len(ret.blockOrder)
  /\ \E b \in Range(ret.blockOrder) :
        \E x \in ForwardJumps(b) : Resolved(b, x) /\ readInt32(ue.bc, x.jmpImmedOff) > 0

\* the regions that the walk of emit_ehent_tree has created
EhRegions == hist.ehRegions

\* the loop of emit_ehent_tree over the sorted regions, for one outcome of
\* the sort: the table and the parentIndexMap it ends with
EhEmission(order) ==
  emit_eh_regions([ehtab |-> <<>>, emitted |-> <<>>, err |-> "",
                   parentIndexMap |-> [r \in 1..Len(EhRegions) |-> -1]],
                  CurFunc, EhRegions, order, ret.blockInfo)

\* C32: every entry that emit_ehent_tree appends to the EH table has valid
\* offsets with base < past, the extent of its region; a region whose start
\* equals its past is skipped: it gets no entry in the table and no index in
\* parentIndexMap, while every other region gets both.
C32_EhEntriesNonEmpty ==
  EhTableDone =>
    /\ \A k \in 1..Len(EhTab) :
          /\ EhTab[k].base # kInvalidOffset
          /\ EhTab[k].past # kInvalidOffset
          /\ EhTab[k].base < EhTab[k].past
          /\ EhTab[k].base = EhRegions[EhRegionOf(k)].start
          /\ EhTab[k].past = EhRegions[EhRegionOf(k)].past
    /\ \A r \in 1..Len(EhRegions) :
          /\ is_empty_region(EhRegions[r]) <=> r \notin Range(hist.ehEmitted)
          /\ \A order \in SortOutcomes(EhRegions) :
                is_empty_region(EhRegions[r])
                  <=> EhEmission(order).parentIndexMap[r] = -1

\* a table with an entry, for a function whose walk created an empty region
\* with a parent region that is not empty
C32_Witness ==
  /\ EhTableDone
  /\ Len(EhTab) >= 1
  /\ \E r \in 1..Len(EhRegions) :
        /\ is_empty_region(EhRegions[r])
        /\ EhRegions[r].parent # 0
        /\ ~is_empty_region(EhRegions[EhRegions[r].parent])

=============================================================================
